---- MODULE Spec2Model ----
(***************************************************************************)
(* react-query-firestore: the cache shared by the document hook, the       *)
(* collection hooks and the mutation helpers.                              *)
(*                                                                         *)
(* A string the code takes apart (a path) is a sequence of one-character   *)
(* strings, so that split / filter / pop / join are computed as the code   *)
(* computes them.  A JavaScript object that the cache can hold carries a   *)
(* reference number "ref": two values are the same object exactly when     *)
(* their refs are equal.  An object created by an operation gets a ref     *)
(* that no object of the cache had before the operation.                   *)
(***************************************************************************)
EXTENDS Integers, Sequences, FiniteSets, TLC

VARIABLES
    docCache,     \* queryClient data under the string keys (document paths)
    colCache,     \* queryClient data under the [path, queryString] keys
    collections,  \* collectionCache: collection path -> registered keys
    sessions,     \* which collection hook is mounted on a key
    docSessions,  \* document paths with an open useDocument listener
    lastCall,     \* the operation that ran last, its arguments and outcome
    ops,          \* number of pushes and helper calls so far
    variant,      \* which hook the listening hook instance is
    query,        \* the query prop of the listening hook instance
    memoQueryString, \* what its useMemo holds
    utilCall,     \* a function of utils.ts and its arguments
    utilResult,   \* what the function returned or did to its argument
    hookPath,     \* the path prop of one listening hook instance
    mounted,      \* whether that hook instance is still mounted
    listeners,    \* the store listeners that instance has opened, in order
    unsubscribeRef, \* unsubscribeRef.current: 0 (null) or a listener's number
    docsToAddRef, \* docsToAddRef.current of the optimistic paginated hook
    mutations,    \* the add calls of that hook: position, context, batch
    hasNextPage,  \* useState of one useCollection instance
    isFetchingNextPage, \* useState of that instance
    invalidations, \* calls of queryClient.invalidateQueries for its key
    pendingAdds,  \* batches of its add that are committing
    pendingPages  \* reads of its fetchNextPage that are under way

cacheVars == <<docCache, colCache, collections, sessions, docSessions>>

instanceVars == <<variant, query, memoQueryString>>
listenerVars == <<instanceVars, hookPath, mounted, listeners, unsubscribeRef>>

optimisticVars == <<docsToAddRef, mutations>>

vars == <<docCache, colCache, collections, sessions, docSessions, lastCall,
          ops, variant, query, memoQueryString, hookPath, mounted, listeners, unsubscribeRef, docsToAddRef,
          mutations, hasNextPage, isFetchingNextPage, invalidations,
          pendingAdds, pendingPages, utilCall, utilResult>>

utilVars == <<utilCall, utilResult>>

hookVars == <<hasNextPage, isFetchingNextPage, invalidations, pendingAdds,
              pendingPages>>

----------------------------------------------------------------------------
(* Bounds *)

MaxPages == 1     \* pages held by one paginated entry
MaxOps == 3       \* pushes and helper calls in one run
MaxListeners == 3 \* listeners one hook instance opens in one run
MaxAdds == 2      \* add calls of the optimistic paginated hook in one run
MaxOptPages == 2  \* pages the optimistic paginated hook fetches in one run

----------------------------------------------------------------------------
(* Strings *)

Slash == <<"/">>
NoPath == <<>>                          \* "" (and undefined): a falsy path
Posts == <<"p">>                        \* the collection path "p"
IdA == <<"a">>
IdB == <<"b">>

CollectionPaths == {Posts}
DocIds == {IdA, IdB}
QueryStrings == {"q1", "q2"}
Keys == CollectionPaths \X QueryStrings

NonEmpty(s) == s /= <<>>

StartsWithAt(s, sep, i) ==
    /\ i + Len(sep) - 1 <= Len(s)
    /\ \A j \in 1..Len(sep) : s[i + j - 1] = sep[j]

\* String.prototype.split(sep) for a non-empty separator
RECURSIVE Split(_, _)
Split(s, sep) ==
    LET hits == {i \in 1..Len(s) : StartsWithAt(s, sep, i)}
    IN  IF hits = {} THEN <<s>>
        ELSE LET i == CHOOSE h \in hits : \A g \in hits : h <= g
             IN  <<SubSeq(s, 1, i - 1)>>
                     \o Split(SubSeq(s, i + Len(sep), Len(s)), sep)

\* Array.prototype.filter(Boolean) on an array of strings
FilterBoolean(parts) == SelectSeq(parts, NonEmpty)

\* Array.prototype.join(sep)
RECURSIVE Join(_, _)
Join(parts, sep) ==
    IF parts = <<>> THEN <<>>
    ELSE IF Len(parts) = 1 THEN parts[1]
    ELSE parts[1] \o sep \o Join(Tail(parts), sep)

\* the path of document id in collection c, as the store reports it
DocPath(c, id) == c \o Slash \o id

DocPaths == {DocPath(c, id) : c \in CollectionPaths, id \in DocIds}

\* paths a document hook is mounted on
DocSessionPaths == {DocPath(Posts, IdA)}

\* paths handed to the mutation helpers
HelperPaths == DocPaths \cup CollectionPaths \cup {NoPath}

\* String.prototype.trim(): white space at both ends is dropped
RECURSIVE Trim(_)
Trim(s) ==
    IF s = <<>> THEN s
    ELSE IF Head(s) = " " THEN Trim(Tail(s))
    ELSE IF s[Len(s)] = " " THEN Trim(SubSeq(s, 1, Len(s) - 1))
    ELSE s

\* validation that lets every path through
isDocumentAlways(path) == TRUE

\* validation that counts the segments of the path as given
isDocumentUntrimmed(path) == Len(FilterBoolean(Split(path, Slash))) % 2 = 0

\* validation with the parity test inverted
isDocumentOdd(path) == Len(FilterBoolean(Split(path, Slash))) % 2 = 1

\* path.trim().split("/").filter(Boolean).length % 2 === 0
isDocument(path) == Len(FilterBoolean(Split(Trim(path), Slash))) % 2 = 0

----------------------------------------------------------------------------
(* Values held by the cache *)

Undefined == [kind |-> "undefined"]
Null == [kind |-> "null"]
Doc(r, fields) == [kind |-> "doc", ref |-> r, f |-> fields]
Array(r, items) == [kind |-> "array", ref |-> r, items |-> items]
\* a non-array object: idx are its index properties (those an array spread
\* copies into it), pages its "pages" property
Object(r, idx, pages) == [kind |-> "object", ref |-> r, idx |-> idx, pages |-> pages]
Page(data) == [kind |-> "page", data |-> data]

EmptyArrayRef == 0
\* empty.array of types.ts: one shared array
EmptyArray == Array(EmptyArrayRef, <<>>)

\* the identityState option as the calls pass it: absent (falsy)
IdentityStates == {""}

\* the elements of a sequence
Range(s) == {s[i] : i \in DOMAIN s}

\* {...prev, ...data}
Spread(prev, data) ==
    [k \in DOMAIN prev \cup DOMAIN data |->
        IF k \in DOMAIN data THEN data[k] ELSE prev[k]]

\* the enumerable fields of a cached value, as an object spread sees them
FieldsOf(v) == IF v.kind = "doc" THEN v.f ELSE <<>>

\* item[identityField] with identityField = "id"
ItemId(item) ==
    IF item.kind = "doc" /\ "id" \in DOMAIN item.f THEN item.f.id ELSE <<>>

RefsOfItem(v) ==
    CASE v.kind = "doc" -> {v.ref}
      [] v.kind = "page" -> {v.data[i].ref : i \in DOMAIN v.data}
      [] OTHER -> {}

RefsOfSeq(s) == UNION {RefsOfItem(s[i]) : i \in DOMAIN s}

RefsOf(v) ==
    CASE v.kind = "doc" -> {v.ref}
      [] v.kind = "array" -> {v.ref} \cup RefsOfSeq(v.items)
      [] v.kind = "object" -> {v.ref} \cup RefsOfSeq(v.idx) \cup RefsOfSeq(v.pages)
      [] OTHER -> {}

RefsIn(dc, cc) ==
    {EmptyArrayRef}
        \cup UNION {RefsOf(dc[p]) : p \in DOMAIN dc}
        \cup UNION {RefsOf(cc[k]) : k \in DOMAIN cc}

\* the reference of a newly created object
Fresh(used) ==
    CHOOSE n \in 1..(Cardinality(used) + 1) :
        n \notin used /\ \A m \in 1..(n - 1) : m \in used

----------------------------------------------------------------------------
(* Collection Index (collectionCache) *)

\* a lookup that returns the first registered key only
getKeysFromCollectionPathFirst(path) ==
    IF path \in DOMAIN collections /\ collections[path] /= <<>>
    THEN <<collections[path][1]>> ELSE <<>>

\* collectionCache.getKeysFromCollectionPath(path)
getKeysFromCollectionPath(path) ==
    IF path \in DOMAIN collections THEN collections[path] ELSE <<>>

\* a registration that appends whatever is there
addCollectionToCacheAppends(path, queryString) ==
    [collections EXCEPT ![path] = Append(@, <<path, queryString>>)]

\* collectionCache.addCollectionToCache(path, queryString)
addCollectionToCache(path, queryString) ==
    IF \E i \in DOMAIN collections[path] :
            collections[path][i] = <<path, queryString>>
    THEN collections
    ELSE [collections EXCEPT ![path] = Append(@, <<path, queryString>>)]

----------------------------------------------------------------------------
(* Cache Coherence Engine of the mutation helpers *)

\* the callbacks setDocument, updateDocument and deleteDocument hand to
\* updateCollectionCache (currentState.map / currentState.filter)
RECURSIVE HelperCallback(_, _, _, _, _, _)
HelperCallback(op, items, docId, data, merge, used) ==
    IF items = <<>> THEN [items |-> <<>>, used |-> used]
    ELSE LET document == Head(items)
             hit == ItemId(document) = docId
             patched == hit /\ (op = "update" \/ (op = "set" /\ merge))
             r == Fresh(used)
             out == IF patched
                    THEN Doc(r, Spread(FieldsOf(document), data))
                    ELSE document
             rest == HelperCallback(op, Tail(items), docId, data, merge,
                                    IF patched THEN used \cup {r} ELSE used)
         IN  [items |-> (IF op = "delete" /\ hit THEN <<>> ELSE <<out>>)
                            \o rest.items,
              used |-> rest.used]

\* the updater updateCollectionCache passes to setQueryData for one key
HelperUpdater(op, cached, docId, data, merge, identityState, used) ==
    LET currentState == IF cached = Undefined THEN EmptyArray ELSE cached
        nested == identityState /= "" /\ currentState.kind /= "array"
        items == IF nested THEN currentState.pages
                 ELSE IF currentState.kind = "array" THEN currentState.items
                 ELSE <<>>
    IN  IF ~nested /\ currentState.kind /= "array"
        THEN \* state.some is not a function
             [threw |-> TRUE, value |-> cached, used |-> used]
        ELSE IF ~\E i \in DOMAIN items : ItemId(items[i]) = docId
        THEN [threw |-> FALSE, value |-> currentState, used |-> used]
        ELSE LET queryState == HelperCallback(op, items, docId, data, merge, used)
                 r == Fresh(queryState.used)
             IN  [threw |-> FALSE,
                  value |-> IF identityState /= ""
                            THEN Object(r,
                                        IF currentState.kind = "array"
                                        THEN currentState.items
                                        ELSE currentState.idx,
                                        queryState.items)
                            ELSE Array(r, queryState.items),
                  used |-> queryState.used \cup {r}]

\* the forEach over the registered keys; an exception ends it
RECURSIVE HelperForEach(_, _, _, _, _, _, _, _)
HelperForEach(op, keys, cc, docId, data, merge, identityState, used) ==
    IF keys = <<>> THEN [threw |-> FALSE, cc |-> cc, used |-> used]
    ELSE LET u == HelperUpdater(op, cc[Head(keys)], docId, data, merge,
                                identityState, used)
         IN  IF u.threw THEN [threw |-> TRUE, cc |-> cc, used |-> used]
             ELSE HelperForEach(op, Tail(keys),
                                [cc EXCEPT ![Head(keys)] = u.value],
                                docId, data, merge, identityState, u.used)

\* path.split("/").filter(Boolean), pop() and join("/")
HelperDocId(path) ==
    LET segs == FilterBoolean(Split(path, Slash)) IN segs[Len(segs)]

\* a parent that is the first segment of the path
HelperCollectionRoot(path) ==
    LET segs == FilterBoolean(Split(path, Slash))
    IN  segs[1]

HelperCollection(path) ==
    LET segs == FilterBoolean(Split(path, Slash))
    IN  Join(SubSeq(segs, 1, Len(segs) - 1), Slash)

\* updateCollectionCache of useHelpers.ts
updateCollectionCache(op, cc, path, data, merge, identityState, used) ==
    HelperForEach(op, getKeysFromCollectionPath(HelperCollection(path)), cc,
                  HelperDocId(path), data, merge, identityState, used)

----------------------------------------------------------------------------
(* Cache Coherence Engine of the document hook *)

\* the updater the document hook's updateCollectionCache passes to
\* setQueryData for one key
DocUpdater(cached, data, used) ==
    LET currentState == IF cached = Undefined THEN EmptyArray ELSE cached
        r == Fresh(used)
    IN  IF currentState.kind /= "array"
        THEN \* currentState.some is not a function
             [threw |-> TRUE, value |-> cached, used |-> used]
        ELSE IF ~\E i \in DOMAIN currentState.items :
                    /\ ItemId(currentState.items[i]) /= <<>>
                    /\ ItemId(currentState.items[i]) = ItemId(data)
        THEN [threw |-> FALSE, value |-> currentState, used |-> used]
        ELSE [threw |-> FALSE,
              value |-> Array(r, [i \in DOMAIN currentState.items |->
                                    IF ItemId(currentState.items[i]) = ItemId(data)
                                    THEN data
                                    ELSE currentState.items[i]]),
              used |-> used \cup {r}]

RECURSIVE DocForEach(_, _, _, _)
DocForEach(keys, cc, data, used) ==
    IF keys = <<>> THEN [threw |-> FALSE, cc |-> cc, used |-> used]
    ELSE LET u == DocUpdater(cc[Head(keys)], data, used)
         IN  IF u.threw THEN [threw |-> TRUE, cc |-> cc, used |-> used]
             ELSE DocForEach(Tail(keys), [cc EXCEPT ![Head(keys)] = u.value],
                             data, u.used)

\* path.split(`/${docId}`).filter(Boolean).join("/")
DocCollection(path, docId) ==
    Join(FilterBoolean(Split(path, Slash \o docId)), Slash)

\* updateCollectionCache of the document hook
docUpdateCollectionCache(cc, path, docId, data, used) ==
    IF DocCollection(path, docId) /= <<>>
    THEN DocForEach(getKeysFromCollectionPath(DocCollection(path, docId)),
                    cc, data, used)
    ELSE [threw |-> FALSE, cc |-> cc, used |-> used]

----------------------------------------------------------------------------
(* Inputs *)

\* field maps passed to set / update
DataSet == {[v |-> 2]}

\* field maps the store reports for an existing document
StoreData == {[v |-> 1]}

\* ordered id lists of a snapshot: no id twice
SnapshotIds ==
    {<<>>} \cup {<<i>> : i \in DocIds}
           \cup {l \in {<<i, j>> : i \in DocIds, j \in DocIds} : l[1] /= l[2]}

\* the id the store gives the document at path
StoreId(path) ==
    LET segs == FilterBoolean(Split(path, Slash)) IN segs[Len(segs)]

Call(op, path, data, merge, ilm, identityState, outcome, remote) ==
    [op |-> op, path |-> path, query |-> "", data |-> data, merge |-> merge,
     ignoreLocalMutation |-> ilm, identityState |-> identityState,
     outcome |-> outcome, remote |-> remote,
     hasPendingWrites |-> FALSE, resolved |-> FALSE, ids |-> <<>>]

NoData == <<>>

Event(op, path) == Call(op, path, NoData, FALSE, FALSE, "", "ok", FALSE)

----------------------------------------------------------------------------
(* Hooks *)

\* useCollection mounted on [path, queryString]
MountCollection(path, queryString) ==
    /\ sessions[<<path, queryString>>] = "none"
    /\ sessions' = [sessions EXCEPT ![<<path, queryString>>] = "collection"]
    /\ collections' = addCollectionToCache(path, queryString)
    /\ lastCall' = Event("mountCollection", path)
    /\ UNCHANGED <<docCache, colCache, docSessions>>

\* useInfiniteCollection mounted on [path, queryString]
MountInfinite(path, queryString) ==
    /\ sessions[<<path, queryString>>] = "none"
    /\ sessions' = [sessions EXCEPT ![<<path, queryString>>] = "infinite"]
    /\ collections' = addCollectionToCache(path, queryString)
    /\ lastCall' = Event("mountInfinite", path)
    /\ UNCHANGED <<docCache, colCache, docSessions>>

\* addToCollectionCache of useHelpers, and the registering effect of a hook
\* that runs again
addToCollectionCache(path, queryString) ==
    /\ collections' = addCollectionToCache(path, queryString)
    /\ lastCall' = [Event("addToCollectionCache", path)
                       EXCEPT !.query = queryString]
    /\ UNCHANGED <<docCache, colCache, sessions, docSessions>>

\* useDocument mounted on path: its fetch opens the listener
MountDocument(path) ==
    /\ path \notin docSessions
    /\ docSessions' = docSessions \cup {path}
    /\ lastCall' = Event("mountDocument", path)
    /\ UNCHANGED <<docCache, colCache, collections, sessions>>

\* the documents of a collection snapshot, normalized one after the other
RECURSIVE NormalizeAll(_, _, _, _, _, _)
NormalizeAll(path, ids, fields, pending, snapshot, used) ==
    IF ids = <<>> THEN [docs |-> <<>>, used |-> used]
    ELSE LET r == Fresh(used)
             docToAdd ==
                 Doc(r, Spread(fields,
                               [id |-> Head(ids), exists |-> TRUE,
                                hasPendingWrites |-> pending]
                                   @@ ("__snapshot" :> snapshot)))
             rest == NormalizeAll(path, Tail(ids), fields, pending, snapshot,
                                  used \cup {r})
         IN  [docs |-> <<docToAdd>> \o rest.docs, used |-> rest.used]

\* a push that leaves the single-document entries alone
WriteDocsNone(dc, path, docs) == dc

\* queryClient.setQueryData(doc.ref.path, docToAdd) for each document
WriteDocs(dc, path, docs) ==
    [p \in DOMAIN dc |->
        IF \E i \in DOMAIN docs : DocPath(path, ItemId(docs[i])) = p
        THEN docs[CHOOSE i \in DOMAIN docs : DocPath(path, ItemId(docs[i])) = p]
        ELSE dc[p]]

\* a push whose documents are put behind the cached ones
setCollectionDataBehind(prev, data, r) ==
    IF prev.kind = "array" THEN Array(r, prev.items \o data) ELSE Array(r, data)

\* queryClient.setQueryData([path, queryString], data)
setCollectionData(prev, data, r) == Array(r, data)

\* the onSnapshot callback of useCollection
CollectionSnapshot(key, ids, fields, pending) ==
    /\ sessions[key] = "collection"
    /\ LET n == NormalizeAll(key[1], ids, fields, pending, "undefined",
                             RefsIn(docCache, colCache))
       IN  /\ docCache' = WriteDocs(docCache, key[1], n.docs)
           /\ colCache' = [colCache EXCEPT ![key] =
                              setCollectionData(@, n.docs, Fresh(n.used))]
    /\ lastCall' = [Event("collectionSnapshot", key[1])
                       EXCEPT !.query = key[2], !.ids = ids]
    /\ UNCHANGED <<collections, sessions, docSessions>>

\* a page fetched by useInfiniteCollection and stored by useInfiniteQuery
InfiniteFetch(key, ids, fields) ==
    /\ sessions[key] = "infinite"
    /\ LET oldPages == IF colCache[key].kind = "object"
                       THEN colCache[key].pages ELSE <<>>
           n == NormalizeAll(key[1], ids, fields, FALSE, "snapshot",
                             RefsIn(docCache, colCache))
       IN  /\ Len(oldPages) < MaxPages
           /\ docCache' = WriteDocs(docCache, key[1], n.docs)
           /\ colCache' = [colCache EXCEPT ![key] =
                              Object(Fresh(n.used), <<>>,
                                     Append(oldPages, Page(n.docs)))]
    /\ lastCall' = [Event("infiniteFetch", key[1]) EXCEPT !.query = key[2]]
    /\ UNCHANGED <<collections, sessions, docSessions>>

\* a callback that writes every snapshot
WritesSnapshotAlways(pending) == TRUE

\* if (!data.hasPendingWrites)
WritesSnapshot(pending) == ~pending

\* the onSnapshot callback of useDocument; resolved: it reached resolve()
DocumentSnapshot(path, fields, exists, pending) ==
    /\ path \in docSessions
    /\ LET used == RefsIn(docCache, colCache)
           r == Fresh(used)
           data == Doc(r, Spread(IF exists THEN fields ELSE <<>>,
                                 [id |-> StoreId(path), exists |-> exists,
                                  hasPendingWrites |-> pending]))
           fan == docUpdateCollectionCache(colCache, path, StoreId(path),
                                           data, used \cup {r})
       IN  IF ~WritesSnapshot(pending)
           THEN /\ UNCHANGED <<docCache, colCache>>
                /\ lastCall' = [Event("documentSnapshot", path)
                                   EXCEPT !.outcome = "pending",
                                          !.hasPendingWrites = pending]
           ELSE /\ docCache' = [docCache EXCEPT ![path] = data]
                /\ colCache' = fan.cc
                /\ lastCall' = [Event("documentSnapshot", path)
                                   EXCEPT !.outcome =
                                       IF fan.threw THEN "typeError" ELSE "ok",
                                          !.hasPendingWrites = pending,
                                          !.resolved = ~fan.threw]
    /\ UNCHANGED <<collections, sessions, docSessions>>

----------------------------------------------------------------------------
(* Mutation helpers *)

\* a set that merges whatever the merge option says
SetUpdaterMerging(prevState, data, merge, r) ==
    Doc(r, Spread(FieldsOf(prevState), data))

\* the updater setDocument passes to setQueryData for the document entry;
\* r is the reference of data, or of the merged object
SetUpdater(prevState, data, merge, r) ==
    IF ~merge THEN Doc(r, data)
    ELSE Doc(r, Spread(FieldsOf(prevState), data))

\* the updater updateDocument passes to setQueryData for the document entry
UpdateUpdater(prevState, data, r) ==
    Doc(r, Spread(FieldsOf(prevState), data))

\* setDocument(path, data, {merge}, {ignoreLocalMutation, identityState})
setDocument(path, data, merge, ignoreLocalMutation, identityState) ==
    IF path = NoPath
    THEN /\ lastCall' = [Event("set", path) EXCEPT !.outcome = "undefined"]
         /\ UNCHANGED <<docCache, colCache>>
    ELSE IF ~isDocument(path)
    THEN /\ lastCall' = [Event("set", path) EXCEPT !.outcome = "invalidPath"]
         /\ UNCHANGED <<docCache, colCache>>
    ELSE LET used == RefsIn(docCache, colCache)
             r == Fresh(used)
             fan == updateCollectionCache("set", colCache, path, data, merge,
                                          identityState, used \cup {r})
         IN  /\ docCache' =
                    IF ignoreLocalMutation THEN docCache
                    ELSE [docCache EXCEPT ![path] =
                            SetUpdater(@, data, merge, r)]
             /\ colCache' = fan.cc
             /\ lastCall' = Call("set", path, data, merge, ignoreLocalMutation,
                                 identityState,
                                 IF fan.threw THEN "typeError" ELSE "ok",
                                 ~fan.threw)

\* updateDocument(path, data, {ignoreLocalMutation, identityState})
updateDocument(path, data, ignoreLocalMutation, identityState) ==
    IF path = NoPath
    THEN /\ lastCall' = [Event("update", path) EXCEPT !.outcome = "undefined"]
         /\ UNCHANGED <<docCache, colCache>>
    ELSE IF ~isDocument(path)
    THEN /\ lastCall' = [Event("update", path) EXCEPT !.outcome = "invalidPath"]
         /\ UNCHANGED <<docCache, colCache>>
    ELSE LET used == RefsIn(docCache, colCache)
             r == Fresh(used)
             fan == updateCollectionCache("update", colCache, path, data, FALSE,
                                          identityState, used \cup {r})
         IN  /\ docCache' =
                    IF ignoreLocalMutation THEN docCache
                    ELSE [docCache EXCEPT ![path] =
                            UpdateUpdater(@, data, r)]
             /\ colCache' = fan.cc
             /\ lastCall' = Call("update", path, data, FALSE,
                                 ignoreLocalMutation, identityState,
                                 IF fan.threw THEN "typeError" ELSE "ok",
                                 ~fan.threw)

\* a delete that only reaches the store
deleteDocumentRemoteOnly(path, ignoreLocalMutation, identityState) ==
    /\ lastCall' = Call("delete", path, NoData, FALSE, ignoreLocalMutation,
                        identityState, "ok", TRUE)
    /\ UNCHANGED <<docCache, colCache>>

\* deleteDocument(path, {ignoreLocalMutation, identityState})
deleteDocument(path, ignoreLocalMutation, identityState) ==
    IF path = NoPath
    THEN /\ lastCall' = [Event("delete", path) EXCEPT !.outcome = "undefined"]
         /\ UNCHANGED <<docCache, colCache>>
    ELSE IF ~isDocument(path)
    THEN /\ lastCall' = [Event("delete", path) EXCEPT !.outcome = "invalidPath"]
         /\ UNCHANGED <<docCache, colCache>>
    ELSE LET fan == updateCollectionCache("delete", colCache, path, NoData,
                                          FALSE, identityState,
                                          RefsIn(docCache, colCache))
         IN  /\ docCache' =
                    IF ignoreLocalMutation THEN docCache
                    ELSE [docCache EXCEPT ![path] = Null]
             /\ colCache' = fan.cc
             /\ lastCall' = Call("delete", path, NoData, FALSE,
                                 ignoreLocalMutation, identityState,
                                 IF fan.threw THEN "typeError" ELSE "ok",
                                 ~fan.threw)

SetDocument ==
    /\ \E path \in HelperPaths, data \in DataSet, merge \in BOOLEAN,
          ilm \in BOOLEAN, identityState \in IdentityStates :
            setDocument(path, data, merge, ilm, identityState)
    /\ UNCHANGED <<collections, sessions, docSessions>>

UpdateDocument ==
    /\ \E path \in HelperPaths, data \in DataSet,
          ilm \in BOOLEAN, identityState \in IdentityStates :
            updateDocument(path, data, ilm, identityState)
    /\ UNCHANGED <<collections, sessions, docSessions>>

DeleteDocument ==
    /\ \E path \in HelperPaths,
          ilm \in BOOLEAN, identityState \in IdentityStates :
            deleteDocument(path, ilm, identityState)
    /\ UNCHANGED <<collections, sessions, docSessions>>

----------------------------------------------------------------------------
(* The listener of one hook instance (useDocument, useCollection and the    *)
(* listening useInfiniteCollection share this code)                         *)

Variants == {"useDocument", "useCollection", "useInfiniteCollection"}

\* the paths the hook instance is rendered with: a document path for
\* useDocument, a collection path for the collection hooks, or none
PathsOf(v) ==
    (IF v = "useDocument" THEN DocPaths ELSE CollectionPaths) \cup {NoPath}

\* unsubscribeRef.current holding empty.function
EmptyFunction == -1

\* a listener opened by createListenerAsync: open until its unsubscribe is
\* called or the store ends it, first once its first snapshot has resolved
\* the promise, failed once the store has reported an error, rejected once
\* the promise is rejected
Listener(path, queryString) ==
    [path |-> path, queryString |-> queryString, open |-> TRUE,
     first |-> FALSE, failed |-> FALSE, rejected |-> FALSE]

\* the promise of the listener is neither resolved nor rejected
Waiting(l) == ~l.first /\ ~l.rejected

\* if (unsubscribeRef.current) { unsubscribeRef.current(); ... = null }
Teardown(ls, ref) ==
    IF ref > 0 THEN [ls EXCEPT ![ref].open = FALSE] ELSE ls

\* a createListenerAsync that never returns early
NoListenerNever(path) == FALSE

\* if (!path) of createListenerAsync: resolve at once without a listener
NoListener(path) == path = NoPath

\* the query function.  With a path it tears the held listener down, opens a
\* new one and awaits its first snapshot; react-query runs one fetch per
\* query key at a time.  Without a path createListenerAsync resolves at once
\* with empty.function; useDocument is not enabled without a path.
fetch ==
    /\ mounted
    /\ variant = "useDocument" => hookPath /= NoPath
    /\ IF NoListener(hookPath)
       THEN /\ listeners' = Teardown(listeners, unsubscribeRef)
            /\ unsubscribeRef' = EmptyFunction
       ELSE /\ Len(listeners) < MaxListeners
            /\ ~\E n \in DOMAIN listeners :
                    /\ listeners[n].path = hookPath
                    /\ listeners[n].queryString = memoQueryString
                    /\ Waiting(listeners[n])
            /\ listeners' = Append(Teardown(listeners, unsubscribeRef),
                                   Listener(hookPath, memoQueryString))
            /\ unsubscribeRef' = 0
    /\ UNCHANGED <<instanceVars, hookPath, mounted>>

\* whether onSnapshot is given a callback for errors
HasErrorCallback(v) == v \in {"useDocument", "useInfiniteCollection"}

\* the store reports an error on listener n and ends it; the error callback,
\* where there is one, rejects the promise
SnapshotError(n) ==
    /\ listeners[n].open
    /\ listeners' = [listeners EXCEPT
                        ![n].open = FALSE,
                        ![n].failed = TRUE,
                        ![n].rejected = ~listeners[n].first
                                            /\ HasErrorCallback(variant)]
    /\ UNCHANGED <<instanceVars, hookPath, mounted, unsubscribeRef>>

\* the first snapshot of listener n resolves the promise and the query
\* function goes on: unsubscribeRef.current = listner.unsubscribe
FirstSnapshot(n) ==
    /\ listeners[n].open
    /\ ~listeners[n].first
    /\ listeners' = [listeners EXCEPT ![n].first = TRUE]
    /\ unsubscribeRef' = n
    /\ UNCHANGED <<instanceVars, hookPath, mounted>>

\* the hook is rendered with another path: the effect's cleanup runs
ChangePath(path) ==
    /\ mounted
    /\ path /= hookPath
    /\ listeners' = Teardown(listeners, unsubscribeRef)
    /\ unsubscribeRef' = 0
    /\ hookPath' = path
    /\ UNCHANGED <<instanceVars, mounted>>

\* the component unmounts: the effect's cleanup runs
Unmount ==
    /\ mounted
    /\ listeners' = Teardown(listeners, unsubscribeRef)
    /\ unsubscribeRef' = 0
    /\ mounted' = FALSE
    /\ UNCHANGED <<instanceVars, hookPath>>

ListenerInit ==
    /\ hookPath = DocPath(Posts, IdA)
    /\ mounted = TRUE
    /\ listeners = <<>>
    /\ unsubscribeRef = 0

----------------------------------------------------------------------------
(* The optimistic paginated hook (useInfiniteCollection of Provider.tsx)    *)

\* the key [path, memoQueryString] of the hook instance
OptKey == <<Posts, "q1">>

Digits == <<"1", "2", "3", "4">>

\* ref.doc().id: an id no other document has; the i-th of add call m
GenId(m, i) == <<"g", Digits[m], Digits[i]>>

\* ordered id lists of the pages the store returns
PageIds == {<<IdA>>, <<IdA, IdB>>}

\* Array.isArray(newData) ? newData : [newData]
AddInputs == {<<d>> : d \in DataSet} \cup {<<d, e>> : d \in DataSet, e \in DataSet}

Mutation(pc, data, previousPages, added, written) ==
    [pc |-> pc, data |-> data, previousPages |-> previousPages,
     added |-> added, written |-> written]

IdleMutation == Mutation("idle", <<>>, Undefined, <<>>, <<>>)

\* the references of the objects the cache, the ref and the contexts hold
OptRefs ==
    RefsIn(docCache, colCache) \cup RefsOfSeq(docsToAddRef)
        \cup UNION {RefsOf(mutations[m].previousPages) : m \in DOMAIN mutations}

\* useInfiniteCollection mounted on the key
MountOptimistic(path, queryString) ==
    /\ sessions[<<path, queryString>>] = "none"
    /\ sessions' = [sessions EXCEPT ![<<path, queryString>>] = "optimistic"]
    /\ collections' = addCollectionToCache(path, queryString)
    /\ lastCall' = Event("mountOptimistic", path)
    /\ UNCHANGED <<docCache, colCache, docSessions, optimisticVars>>

\* a page read with ref.get() and stored by useInfiniteQuery
OptimisticFetch(ids, fields) ==
    /\ sessions[OptKey] = "optimistic"
    /\ LET oldPages == IF colCache[OptKey].kind = "object"
                       THEN colCache[OptKey].pages ELSE <<>>
           n == NormalizeAll(OptKey[1], ids, fields, FALSE, "snapshot", OptRefs)
       IN  /\ Len(oldPages) < MaxOptPages
           /\ docCache' = WriteDocs(docCache, OptKey[1], n.docs)
           /\ colCache' = [colCache EXCEPT ![OptKey] =
                              Object(Fresh(n.used), <<>>,
                                     Append(oldPages, Page(n.docs)))]
    /\ lastCall' = [Event("optimisticFetch", OptKey[1]) EXCEPT !.query = OptKey[2]]
    /\ UNCHANGED <<collections, sessions, docSessions, optimisticVars>>

\* add(data): mutateAsync starts the mutation, whose onMutate awaits
\* cancelQueries
add(m, data) ==
    /\ sessions[OptKey] = "optimistic"
    /\ mutations[m].pc = "idle"
    /\ \A l \in 1..(m - 1) : mutations[l].pc /= "idle"
    /\ mutations' = [mutations EXCEPT ![m] =
                        Mutation("onMutate", data, Undefined, <<>>, <<>>)]
    /\ UNCHANGED <<cacheVars, lastCall, docsToAddRef>>

\* dataArray.map((doc) => ({...doc, id: ref.doc().id}))
RECURSIVE OptimisticDocs(_, _, _, _)
OptimisticDocs(m, i, dataArray, used) ==
    IF i > Len(dataArray) THEN [docs |-> <<>>, used |-> used]
    ELSE LET r == Fresh(used)
             rest == OptimisticDocs(m, i + 1, dataArray, used \cup {r})
         IN  [docs |-> <<Doc(r, Spread(dataArray[i], [id |-> GenId(m, i)]))>>
                           \o rest.docs,
              used |-> rest.used]

\* an onError that leaves the entry as it is
onErrorKeeps(cached, previousPages) == cached

\* the value onError stores: context?.previousPages
onError(cached, previousPages) == previousPages

\* new documents placed behind the members of the first page
PrependBehind(docs, firstPageData) == firstPageData \o docs

\* [...docsToAddRef.current, ...firstPage.data]
Prepend(docs, firstPageData) == docs \o firstPageData

\* onMutate after its await: snapshot, new ids, optimistic write.  With no
\* page in the snapshot firstPage.data throws, and the mutation ends in
\* onError with no context.
onMutate(m) ==
    /\ mutations[m].pc = "onMutate"
    /\ LET cached == colCache[OptKey]
           new == OptimisticDocs(m, 1, mutations[m].data, OptRefs)
           r == Fresh(new.used)
           previousPages == IF cached = Undefined
                            THEN Object(r, <<>>, <<>>) ELSE cached
       IN  /\ docsToAddRef' = new.docs
           /\ IF previousPages.pages = <<>>
              THEN /\ colCache' = [colCache EXCEPT ![OptKey] =
                                      onError(cached, Undefined)]
                   /\ mutations' = [mutations EXCEPT ![m].pc = "typeError"]
              ELSE /\ colCache' = [colCache EXCEPT ![OptKey] =
                          Object(r, previousPages.idx,
                                 <<Page(Prepend(new.docs,
                                                Head(previousPages.pages).data))>>
                                     \o Tail(previousPages.pages))]
                   /\ mutations' = [mutations EXCEPT ![m] =
                          Mutation("mutationFn", @.data, previousPages,
                                   new.docs, <<>>)]
    /\ UNCHANGED <<docCache, collections, sessions, docSessions, lastCall>>

\* ({id, ...doc}) => batch.set(ref.doc(id), doc)
BatchSet(d) ==
    [id |-> d.f.id, doc |-> [k \in DOMAIN d.f \ {"id"} |-> d.f[k]]]

\* the mutation function up to its await: the batch of docsToAddRef.current
mutationFn(m) ==
    /\ mutations[m].pc = "mutationFn"
    /\ mutations' = [mutations EXCEPT
                        ![m].pc = "commit",
                        ![m].written = [i \in DOMAIN docsToAddRef |->
                                          BatchSet(docsToAddRef[i])]]
    /\ UNCHANGED <<cacheVars, lastCall, docsToAddRef>>

\* batch.commit() resolves; the context is not used again
CommitResolves(m) ==
    /\ mutations[m].pc = "commit"
    /\ mutations' = [mutations EXCEPT ![m].pc = "success",
                                      ![m].previousPages = Undefined]
    /\ UNCHANGED <<cacheVars, lastCall, docsToAddRef>>

\* batch.commit() rejects: onError runs with the context of onMutate
CommitRejects(m) ==
    /\ mutations[m].pc = "commit"
    /\ mutations' = [mutations EXCEPT ![m].pc = "error",
                                      ![m].previousPages = Undefined]
    /\ colCache' = [colCache EXCEPT ![OptKey] =
                       onError(@, mutations[m].previousPages)]
    /\ UNCHANGED <<docCache, collections, sessions, docSessions, lastCall,
                   docsToAddRef>>

OptimisticInit ==
    /\ docsToAddRef = <<>>
    /\ mutations = [m \in 1..MaxAdds |-> IdleMutation]

----------------------------------------------------------------------------
(* What useDocument and useCollection hand to the component                 *)

\* the key [path, memoQueryString] of the useCollection instance
HookKey == <<Posts, "q1">>

\* the same instance rendered without a path
NoPathKey == <<NoPath, "q1">>

\* set of useDocument: if (!path) return;
\* firestore.doc(path).set(newData, setOptions || {})
useDocumentSet(path, data, merge) ==
    /\ path /= NoPath => path \in docSessions
    /\ lastCall' = IF path = NoPath
                   THEN Call("useDocument.set", path, data, merge, FALSE, "",
                             "undefined", FALSE)
                   ELSE Call("useDocument.set", path, data, merge, FALSE, "",
                             "ok", TRUE)
    /\ UNCHANGED <<cacheVars, hookVars>>

\* update of useDocument: if (!path) return;
\* firestore.doc(path).update(newData)
useDocumentUpdate(path, data) ==
    /\ path /= NoPath => path \in docSessions
    /\ lastCall' = IF path = NoPath
                   THEN Call("useDocument.update", path, data, FALSE, FALSE,
                             "", "undefined", FALSE)
                   ELSE Call("useDocument.update", path, data, FALSE, FALSE,
                             "", "ok", TRUE)
    /\ UNCHANGED <<cacheVars, hookVars>>

\* deleteDocument of useDocument: deleteDoc(path) of useHelpers
useDocumentDelete(path) ==
    /\ path /= NoPath => path \in docSessions
    /\ deleteDocument(path, FALSE, "")
    /\ UNCHANGED <<collections, sessions, docSessions, hookVars>>

\* the onSnapshot callback of the useCollection instance
HookSnapshot(ids, fields) ==
    /\ CollectionSnapshot(HookKey, ids, fields, FALSE)
    /\ hasNextPage' = (ids /= <<>>)
    /\ UNCHANGED <<isFetchingNextPage, invalidations, pendingAdds,
                   pendingPages>>

\* add of useCollection: the mutation function builds the batch and awaits
\* batch.commit(); without a path it resolves with [] and writes nothing
useCollectionAdd(key, data) ==
    /\ key[1] /= NoPath => sessions[key] = "collection"
    /\ pendingAdds' = pendingAdds + 1
    /\ lastCall' = [Call("useCollection.add", key[1], data, FALSE, FALSE,
                         "", "ok", key[1] /= NoPath) EXCEPT !.query = key[2]]
    /\ UNCHANGED <<cacheVars, hasNextPage, isFetchingNextPage, invalidations,
                   pendingPages>>

\* an onSettled that does nothing
onSettledNone(n) == n

\* queryClient.invalidateQueries([path, memoQueryString])
onSettled(n) == n + 1

\* batch.commit() resolves or rejects: onSettled runs
AddSettles(key, ok) ==
    /\ pendingAdds > 0
    /\ pendingAdds' = pendingAdds - 1
    /\ invalidations' = onSettled(invalidations)
    /\ lastCall' = [Event("useCollection.addSettled", key[1])
                       EXCEPT !.query = key[2],
                              !.outcome = IF ok THEN "ok" ELSE "error"]
    /\ UNCHANGED <<cacheVars, hasNextPage, isFetchingNextPage, pendingPages>>

\* a guard that only looks at the path
NoPagePathOnly(path, data) == path = NoPath

\* !path || !data?.length
NoPage(path, data) ==
    \/ path = NoPath
    \/ data.kind /= "array"
    \/ data.items = <<>>

\* fetchNextPage of useCollection up to its await
fetchNextPage(key) ==
    /\ key[1] /= NoPath => sessions[key] = "collection"
    /\ LET data == IF key \in DOMAIN colCache THEN colCache[key] ELSE Undefined
       IN  IF NoPage(key[1], data)
           THEN /\ lastCall' = [Event("fetchNextPage", key[1])
                                   EXCEPT !.query = key[2], !.outcome = "undefined"]
                /\ UNCHANGED <<isFetchingNextPage, pendingPages>>
           ELSE /\ lastCall' = [Event("fetchNextPage", key[1])
                                   EXCEPT !.query = key[2], !.remote = TRUE]
                /\ isFetchingNextPage' = TRUE
                /\ pendingPages' = pendingPages + 1
    /\ UNCHANGED <<cacheVars, hasNextPage, invalidations, pendingAdds>>

\* a setCache that puts the new documents in the place of the array
setCacheReplaces(prevState, cachedData, r) == Array(r, cachedData)

\* the updater of setCache
setCache(prevState, cachedData, r) ==
    IF prevState = Undefined THEN Array(r, <<>>)
    ELSE Array(r, prevState.items \o cachedData)

\* fetchNextPage after its await: the page has arrived
NextPageArrives(ids, fields) ==
    /\ pendingPages > 0
    /\ pendingPages' = pendingPages - 1
    /\ hasNextPage' = (ids /= <<>>)
    /\ isFetchingNextPage' = FALSE
    /\ LET n == NormalizeAll(HookKey[1], ids, fields, FALSE, "undefined",
                             RefsIn(docCache, colCache))
       IN  /\ docCache' = WriteDocs(docCache, HookKey[1], n.docs)
           /\ colCache' = [colCache EXCEPT ![HookKey] =
                              setCache(@, n.docs, Fresh(n.used))]
    /\ lastCall' = [Event("nextPage", HookKey[1])
                       EXCEPT !.query = HookKey[2], !.ids = ids]
    /\ UNCHANGED <<collections, sessions, docSessions, invalidations,
                   pendingAdds>>

\* fetchNextPage after its await: the read has failed, and the function ends
\* there
NextPageRejects ==
    /\ pendingPages > 0
    /\ pendingPages' = pendingPages - 1
    /\ lastCall' = [Event("nextPage", HookKey[1])
                       EXCEPT !.query = HookKey[2], !.outcome = "error"]
    /\ UNCHANGED <<cacheVars, hasNextPage, isFetchingNextPage, invalidations,
                   pendingAdds>>

----------------------------------------------------------------------------
(* The query prop and its fingerprint (useCollection.ts 177-213, 280-290)  *)

Number(n) == [kind |-> "number", n |-> n]

\* the where clauses the component builds: two arrays with the same values
\* and one with another value
Wheres ==
    {Array(1, <<"f", "==", "x">>), Array(2, <<"f", "==", "x">>),
     Array(3, <<"f", "==", "y">>)}

\* the first query prop
Query0 ==
    [where |-> Array(1, <<"f", "==", "x">>), endAt |-> Undefined,
     endBefore |-> Undefined, startAfter |-> Undefined, startAt |-> Undefined,
     orderBy |-> Array(4, <<"f", "asc">>), limit |-> Number(1),
     isCollectionGroup |-> Undefined]

Queries == {[Query0 EXCEPT !.where = w] : w \in Wheres}

\* the members of the object literal, in its order
QueryMembers ==
    <<"where", "endAt", "endBefore", "startAfter", "startAt", "orderBy",
      "limit", "isCollectionGroup">>

Quote == "\""

\* JSON.stringify of a value of the model: an array of strings or a number
JSONValue(v) ==
    IF v.kind = "array"
    THEN <<"[">> \o Join([i \in 1..Len(v.items) |->
                              <<Quote, v.items[i], Quote>>], <<",">>)
               \o <<"]">>
    ELSE IF v.kind = "number" THEN <<Digits[v.n]>>
    ELSE <<"null">>

\* JSON.stringify of the object literal: members that are undefined are
\* left out
Stringify(q) ==
    LET defined == SelectSeq(QueryMembers, LAMBDA m : q[m] /= Undefined)
    IN  <<"{">> \o Join([i \in 1..Len(defined) |->
                              <<Quote, defined[i], Quote, ":">>
                                  \o JSONValue(q[defined[i]])], <<",">>)
              \o <<"}">>

\* useMemo: the function runs again when a dependency is another value or
\* another instance
useMemo(memo, deps, newDeps) ==
    IF newDeps = deps THEN memo ELSE Stringify(newDeps)

\* an effect that depends on the query prop itself
EffectRunsByInstance(path, q, memo, q2, memo2) == q2 /= q

\* the dependencies [path, memoQueryString] of the cleanup effect changed
EffectRuns(path, q, memo, q2, memo2) == <<path, memo2>> /= <<path, memo>>

\* a collection hook is rendered with another query prop
Rerender(q) ==
    /\ mounted
    /\ variant /= "useDocument"
    /\ q /= query
    /\ query' = q
    /\ memoQueryString' = useMemo(memoQueryString, query, q)
    /\ IF EffectRuns(hookPath, query, memoQueryString, q,
                     memoQueryString')
       THEN /\ listeners' = Teardown(listeners, unsubscribeRef)
            /\ unsubscribeRef' = 0
            /\ lastCall' = [Event("render", hookPath)
                               EXCEPT !.outcome = "cleanup"]
       ELSE /\ UNCHANGED <<listeners, unsubscribeRef>>
            /\ lastCall' = Event("render", hookPath)
    /\ UNCHANGED <<variant, hookPath, mounted>>

QueryInit ==
    /\ query = Query0
    /\ memoQueryString = Stringify(Query0)

HookInit ==
    /\ hasNextPage = TRUE
    /\ isFetchingNextPage = FALSE
    /\ invalidations = 0
    /\ pendingAdds = 0
    /\ pendingPages = 0

----------------------------------------------------------------------------
(* utils.ts *)

\* the longest argument array
MaxArr == 2

\* a document of a page: an object of its own with an id and a value
Item(r, id, v) == Doc(r, [id |-> id, v |-> v])

\* arrays of at most MaxArr documents whose instances are base + 1,
\* base + 2, ...
ItemArrays(base) ==
    UNION {{[i \in 1..n |-> Item(base + i, ids[i], vs[i])] :
               ids \in [1..n -> DocIds], vs \in [1..n -> {1, 2}]} :
           n \in 0..MaxArr}

\* Array.from(new Set(arr)): the first occurrence of each instance
RECURSIVE ArrayFromSet(_)
ArrayFromSet(arr) ==
    IF arr = <<>> THEN <<>>
    ELSE LET front == ArrayFromSet(SubSeq(arr, 1, Len(arr) - 1))
             last == arr[Len(arr)]
         IN  IF \E i \in DOMAIN front : front[i] = last THEN front
             ELSE Append(front, last)

\* a union in which an id of both arrays keeps the copy of arr2
unionByKeepsOld(arr1, arr2, iteratee) ==
    LET set == {iteratee[arr2[i]] : i \in DOMAIN arr2}
    IN  ArrayFromSet(SelectSeq(arr1, LAMBDA itm : iteratee[itm] \notin set)
                         \o arr2)

\* unionBy(arr1, arr2, iteratee), iteratee a function on the documents
unionBy(arr1, arr2, iteratee) ==
    LET set == {iteratee[arr1[i]] : i \in DOMAIN arr1}
    IN  ArrayFromSet(arr1 \o SelectSeq(arr2, LAMBDA itm :
                                                iteratee[itm] \notin set))

\* values of a record the store returns: a Timestamp instance, a Date, a
\* plain map (its members in key order) and an array
Timestamp(s, n) == [kind |-> "timestamp", seconds |-> s, nanoseconds |-> n]
Date(s, n) == [kind |-> "date", seconds |-> s, nanoseconds |-> n]
Map(members) == [kind |-> "map", members |-> members]
Member(key, value) == [key |-> key, value |-> value]
List(items) == [kind |-> "list", items |-> items]

\* a map with the two members of a Timestamp that is not one
PlainPair ==
    Map(<<Member("seconds", Number(1)), Member("nanoseconds", Number(0))>>)

LeafValues == {Null, Number(1), Timestamp(1, 0), Date(1, 0), PlainPair}

NestedValues ==
    {Map(<<Member("t", v)>>) : v \in LeafValues}
        \cup {List(<<v>>) : v \in LeafValues}
        \cup {Map(<<Member("t", Map(<<Member("u", v)>>))>>) :
                  v \in LeafValues}

\* the records parseDates is given
Records ==
    {Map(<<Member("a", v), Member("b", w)>>) :
        v \in LeafValues \cup NestedValues, w \in LeafValues}

\* !value
Falsy(v) == v.kind \in {"null", "undefined"}

\* typeof value === "object"
IsObject(v) == v.kind \in {"timestamp", "date", "map", "list"}

\* key in value
In(key, v) ==
    CASE v.kind = "timestamp" -> key \in {"seconds", "nanoseconds"}
      [] v.kind = "map" ->
            \E i \in DOMAIN v.members : v.members[i].key = key
      [] OTHER -> FALSE

\* value.toDate is a function
HasToDate(v) == v.kind = "timestamp"

\* Object.keys(obj): the members of a map, the indices of an array
KeysOf(obj) ==
    CASE obj.kind = "map" -> DOMAIN obj.members
      [] obj.kind = "list" -> DOMAIN obj.items
      [] OTHER -> {}

Get(obj, k) == IF obj.kind = "map" THEN obj.members[k].value ELSE obj.items[k]

Put(obj, k, v) ==
    IF obj.kind = "map" THEN [obj EXCEPT !.members[k].value = v]
    ELSE [obj EXCEPT !.items[k] = v]

\* parseDates(obj) from its k-th key on: the object as it is left, and
\* whether value.toDate() threw a TypeError on the way
RECURSIVE parseDatesFrom(_, _)
parseDatesFrom(obj, k) ==
    IF k \notin KeysOf(obj) THEN [obj |-> obj, threw |-> FALSE]
    ELSE LET value == Get(obj, k)
         IN  IF Falsy(value) \/ value.kind = "number"
             THEN parseDatesFrom(obj, k + 1)
             ELSE IF IsObject(value) /\ In("seconds", value)
                         /\ In("nanoseconds", value)
             THEN IF HasToDate(value)
                  THEN parseDatesFrom(
                           Put(obj, k, Date(value.seconds, value.nanoseconds)),
                           k + 1)
                  ELSE [obj |-> obj, threw |-> TRUE]
             ELSE IF IsObject(value)
             THEN LET inner == parseDatesFrom(value, 1)
                  IN  IF inner.threw
                      THEN [obj |-> Put(obj, k, inner.obj), threw |-> TRUE]
                      ELSE parseDatesFrom(Put(obj, k, inner.obj), k + 1)
             ELSE parseDatesFrom(obj, k + 1)

parseDates(obj) == parseDatesFrom(obj, 1)

NoCall == [fn |-> "none"]

String(s) == [kind |-> "string", s |-> s]
FieldPath(s) == [kind |-> "fieldPath", s |-> s]
Boolean(b) == [kind |-> "boolean", b |-> b]

\* the largest cursor and limit of a descriptor
MaxCursor == 1

\* where: absent, one condition keyed by a string or by a FieldPath, or an
\* array of conditions
WhereProps ==
    {Undefined,
     Array(0, <<String("f"), String("=="), String("x")>>),
     Array(0, <<FieldPath("f"), String("=="), String("x")>>),
     Array(0, <<Array(0, <<String("f"), String("=="), String("x")>>),
                Array(0, <<String("g"), String("<"), String("y")>>)>>)}

\* orderBy: absent, a field, one [field, direction] or an array of them
OrderByProps ==
    {Undefined,
     String("f"),
     Array(0, <<String("f"), String("desc")>>),
     Array(0, <<Array(0, <<String("f"), String("asc")>>),
                Array(0, <<String("g"), String("desc")>>)>>)}

\* startAt, endAt, startAfter, endBefore and limit: absent or a number
NumberProps == {Undefined} \cup {Number(n) : n \in 0..MaxCursor}

\* the cursors, in the order createFirestoreRef applies them
Cursors == <<"startAt", "endAt", "startAfter", "endBefore">>

Descriptors ==
    {[where |-> w, orderBy |-> o, startAt |-> c[1], endAt |-> c[2],
      startAfter |-> c[3], endBefore |-> c[4], limit |-> l,
      isCollectionGroup |-> g] :
        w \in WhereProps, o \in OrderByProps,
        c \in [1..4 -> NumberProps], l \in NumberProps,
        g \in {Undefined, Boolean(TRUE)}}

\* the conversion of a condition to a boolean: undefined and 0 are falsy
Truthy(v) ==
    /\ v /= Undefined
    /\ v.kind = "number" => v.n /= 0
    /\ v.kind = "boolean" => v.b

Clause(op, args) == [op |-> op, args |-> args]

\* w => Array.isArray(w[0])
multipleConditions(w) == w.items[1].kind = "array"

\* the where block of createFirestoreRef
WhereClauses(where) ==
    IF ~Truthy(where) THEN <<>>
    ELSE IF multipleConditions(where)
    THEN [i \in 1..Len(where.items) |->
              Clause("where", where.items[i].items)]
    ELSE IF where.items[1].kind = "string" /\ where.items[2].kind = "string"
    THEN <<Clause("where", where.items)>>
    ELSE <<>>

\* the orderBy block of createFirestoreRef
OrderByClauses(orderBy) ==
    IF ~Truthy(orderBy) THEN <<>>
    ELSE IF orderBy.kind = "string" THEN <<Clause("orderBy", <<orderBy>>)>>
    ELSE IF orderBy.kind = "array"
    THEN IF orderBy.items[1].kind = "array"
         THEN [i \in 1..Len(orderBy.items) |->
                   Clause("orderBy", orderBy.items[i].items)]
         ELSE <<Clause("orderBy", orderBy.items)>>
    ELSE <<>>

\* if (m) ref = ref.m(m)
NumberClause(q, m) ==
    IF Truthy(q[m]) THEN <<Clause(m, <<q[m]>>)>> ELSE <<>>

\* a construction that limits before it sorts
createFirestoreRefLimitFirst(path, q) ==
    <<Clause("collection", <<path>>)>>
        \o (IF Truthy(q.isCollectionGroup)
            THEN <<Clause("collectionGroup", <<path>>)>> ELSE <<>>)
        \o WhereClauses(q.where)
        \o NumberClause(q, "limit")
        \o OrderByClauses(q.orderBy)
        \o NumberClause(q, "startAt")
        \o NumberClause(q, "endAt")
        \o NumberClause(q, "startAfter")
        \o NumberClause(q, "endBefore")

\* the calls made on the store, in order
createFirestoreRef(path, q) ==
    <<Clause("collection", <<path>>)>>
        \o (IF Truthy(q.isCollectionGroup)
            THEN <<Clause("collectionGroup", <<path>>)>> ELSE <<>>)
        \o WhereClauses(q.where)
        \o OrderByClauses(q.orderBy)
        \o NumberClause(q, "startAt")
        \o NumberClause(q, "endAt")
        \o NumberClause(q, "startAfter")
        \o NumberClause(q, "endBefore")
        \o NumberClause(q, "limit")

\* segment names: one that is a document id, one that starts with it
SegmentNames == {Posts, IdA, <<"a", "b">>}

\* document paths of two and of four segments
NestedDocPaths ==
    {DocPath(c, id) : c \in SegmentNames, id \in DocIds}
        \cup {DocPath(DocPath(DocPath(c1, s), c2), id) :
                  c1 \in SegmentNames, s \in SegmentNames,
                  c2 \in SegmentNames, id \in DocIds}

\* longest path handed to the validation
MaxPathLen == 4

\* non-empty paths over a name character, the separator and white space
ValidationPaths ==
    UNION {[1..n -> {"p", "/", " "}] : n \in 1..MaxPathLen}

UtilCalls ==
    {[fn |-> "unionBy", arr1 |-> a1, arr2 |-> a2] :
        a1 \in ItemArrays(0), a2 \in ItemArrays(MaxArr)}
        \cup {[fn |-> "parseDates", obj |-> o] : o \in Records}
        \cup {[fn |-> "parent", path |-> p] : p \in NestedDocPaths}
        \cup {[fn |-> "createFirestoreRef", path |-> Posts, query |-> q] :
                  q \in Descriptors}
        \cup {[fn |-> "validate", op |-> op, path |-> p] :
                  op \in {"set", "update", "delete"}, p \in ValidationPaths}

ApplyUnionBy ==
    /\ utilCall.fn = "unionBy"
    /\ utilResult = Undefined
    /\ LET docs == {utilCall.arr1[i] : i \in DOMAIN utilCall.arr1}
                       \cup {utilCall.arr2[i] : i \in DOMAIN utilCall.arr2}
       IN  utilResult' = Array(0, unionBy(utilCall.arr1, utilCall.arr2,
                                          [doc \in docs |-> ItemId(doc)]))
    /\ UNCHANGED utilCall

ApplyParseDates ==
    /\ utilCall.fn = "parseDates"
    /\ utilResult = Undefined
    /\ utilResult' = parseDates(utilCall.obj)
    /\ UNCHANGED utilCall

\* the validation at the head of setDocument, updateDocument and
\* deleteDocument, on a truthy path
ApplyValidation ==
    /\ utilCall.fn = "validate"
    /\ utilResult = Undefined
    /\ utilResult' = [kind |-> "validation",
                      outcome |-> IF isDocument(utilCall.path)
                                  THEN "ok" ELSE "invalidPath"]
    /\ UNCHANGED utilCall

\* the parent collection each propagation looks up for a document path:
\* the document hook is handed doc.id, the last segment of the path
ApplyParent ==
    /\ utilCall.fn = "parent"
    /\ utilResult = Undefined
    /\ utilResult' = [kind |-> "parent",
                      document |-> DocCollection(utilCall.path,
                                                 HelperDocId(utilCall.path)),
                      helpers |-> HelperCollection(utilCall.path)]
    /\ UNCHANGED utilCall

ApplyCreateFirestoreRef ==
    /\ utilCall.fn = "createFirestoreRef"
    /\ utilResult = Undefined
    /\ utilResult' = [kind |-> "ref",
                      calls |-> createFirestoreRef(utilCall.path,
                                                   utilCall.query)]
    /\ UNCHANGED utilCall

UtilInit ==
    /\ utilCall = NoCall
    /\ utilResult = Undefined

----------------------------------------------------------------------------
(* The listener of the optimistic paginated hook (Provider.tsx 376-441)     *)

\* pushes the listener delivers in a run
MaxPushes == 1

\* querySnapshot.docChanges(): the type and the id of each change; b is
\* added, a is modified or removed
Changes ==
    {<<[type |-> "added", id |-> IdB]>>,
     <<[type |-> "modified", id |-> IdA]>>,
     <<[type |-> "removed", id |-> IdA]>>}

\* the next callback of onSnapshot: the added documents are normalized,
\* stored under their paths and merged into the first page; with no entry
\* the updater returns it as it is, and with no page firstPage.data throws
OptimisticSnapshot(changes, fields) ==
    /\ sessions[OptKey] = "optimistic"
    /\ ops < MaxPushes
    /\ ops' = ops + 1
    /\ LET added == SelectSeq(changes, LAMBDA c : c.type = "added")
           n == NormalizeAll(OptKey[1], [i \in 1..Len(added) |-> added[i].id],
                             fields, FALSE, "snapshot", OptRefs)
           resp == colCache[OptKey]
       IN  /\ docCache' = WriteDocs(docCache, OptKey[1], n.docs)
           /\ IF resp.kind = "object" /\ resp.pages /= <<>>
              THEN LET firstPage == Head(resp.pages)
                       docs == Range(n.docs) \cup Range(firstPage.data)
                   IN  colCache' = [colCache EXCEPT ![OptKey] =
                           Object(Fresh(n.used), resp.idx,
                                  <<Page(unionBy(n.docs, firstPage.data,
                                                 [doc \in docs |-> ItemId(doc)]))>>
                                      \o Tail(resp.pages))]
              ELSE UNCHANGED colCache
    /\ lastCall' = [Event("optimisticSnapshot", OptKey[1])
                       EXCEPT !.query = OptKey[2], !.data = fields,
                              !.ids = changes]
    /\ UNCHANGED <<collections, sessions, docSessions, optimisticVars>>

\* pages.map((page) => page.data).flat()
RECURSIVE Flat(_)
Flat(pages) ==
    IF pages = <<>> THEN <<>> ELSE Head(pages).data \o Flat(Tail(pages))

\* data?.pages.map((page) => page.data).flat()
formattedData(data) ==
    IF data.kind = "object" THEN Array(0, Flat(data.pages)) ELSE Undefined

----------------------------------------------------------------------------
(* Specification *)

CacheInit ==
    /\ docCache = [p \in DocPaths |-> Undefined]
    /\ colCache = [k \in Keys |-> Undefined]
    /\ collections = [c \in CollectionPaths |-> <<>>]
    /\ sessions = [k \in Keys |-> "none"]
    /\ docSessions = {}
    /\ lastCall = Event("init", NoPath)
    /\ ops = 0

Init ==
    /\ CacheInit
    /\ variant = "useDocument"
    /\ QueryInit
    /\ ListenerInit
    /\ OptimisticInit
    /\ HookInit
    /\ UtilInit

Mount ==
    \/ \E k \in Keys : MountCollection(k[1], k[2])
    \/ \E k \in Keys : MountInfinite(k[1], k[2])
    \/ \E p \in DocSessionPaths : MountDocument(p)

Push ==
    \/ \E k \in Keys, ids \in SnapshotIds, fields \in StoreData :
          CollectionSnapshot(k, ids, fields, FALSE)
    \/ \E k \in Keys, ids \in SnapshotIds, fields \in StoreData :
          InfiniteFetch(k, ids, fields)
    \/ \E p \in DocPaths, fields \in StoreData, pending \in BOOLEAN :
          DocumentSnapshot(p, fields, TRUE, pending)

Next ==
    \/ Mount /\ UNCHANGED <<ops, listenerVars, optimisticVars, hookVars,
                           utilVars>>
    \/ /\ ops < MaxOps
       /\ ops' = ops + 1
       /\ \/ Push
          \/ SetDocument
          \/ UpdateDocument
          \/ DeleteDocument
       /\ UNCHANGED <<listenerVars, optimisticVars, hookVars, utilVars>>
    \/ /\ ops < MaxOps
       /\ ops' = ops + 1
       /\ \E k \in Keys : addToCollectionCache(k[1], k[2])
       /\ UNCHANGED <<listenerVars, optimisticVars, hookVars, utilVars>>

Spec == Init /\ [][Next]_vars

\* what the listener steps leave alone
ListenerFrame ==
    UNCHANGED <<cacheVars, lastCall, ops, optimisticVars, hookVars, utilVars>>

\* one hook instance and its listeners
\* a push or a call of the component counts
HookFrame ==
    /\ ops < MaxOps
    /\ ops' = ops + 1
    /\ UNCHANGED <<listenerVars, optimisticVars, utilVars>>

\* a render with another query prop counts
RenderFrame ==
    /\ ops < MaxOps
    /\ ops' = ops + 1
    /\ UNCHANGED <<cacheVars, optimisticVars, hookVars, utilVars>>

\* the mounted instance is the hook v and has no path
PathlessOf(v) == mounted /\ variant = v /\ hookPath = NoPath

ListenerNext ==
    \/ fetch /\ ListenerFrame
    \/ \E n \in DOMAIN listeners : FirstSnapshot(n) /\ ListenerFrame
    \/ \E n \in DOMAIN listeners : SnapshotError(n) /\ ListenerFrame
    \/ \E p \in PathsOf(variant) : ChangePath(p) /\ ListenerFrame
    \/ Unmount /\ ListenerFrame
    \/ \E q \in Queries : Rerender(q) /\ RenderFrame
    \/ \E data \in DataSet, merge \in BOOLEAN :
          PathlessOf("useDocument") /\ useDocumentSet(hookPath, data, merge)
              /\ HookFrame
    \/ \E data \in DataSet :
          PathlessOf("useDocument") /\ useDocumentUpdate(hookPath, data)
              /\ HookFrame
    \/ PathlessOf("useDocument") /\ useDocumentDelete(hookPath) /\ HookFrame
    \/ \E data \in DataSet :
          (PathlessOf("useCollection") \/ PathlessOf("useInfiniteCollection"))
              /\ useCollectionAdd(<<hookPath, "q1">>, data) /\ HookFrame
    \/ \E ok \in BOOLEAN :
          hookPath = NoPath /\ AddSettles(<<hookPath, "q1">>, ok) /\ HookFrame
    \/ PathlessOf("useCollection") /\ fetchNextPage(<<hookPath, "q1">>)
          /\ HookFrame

\* the instance is one of the three listening hooks
ListenerSpecInit ==
    /\ CacheInit
    /\ variant \in Variants
    /\ QueryInit
    /\ hookPath \in PathsOf(variant) \ {NoPath}
    /\ mounted = TRUE
    /\ listeners = <<>>
    /\ unsubscribeRef = 0
    /\ OptimisticInit
    /\ HookInit
    /\ UtilInit

ListenerSpec == ListenerSpecInit /\ [][ListenerNext]_vars

\* what the steps of the optimistic paginated hook leave alone
OptimisticFrame == UNCHANGED <<ops, listenerVars, hookVars, utilVars>>

\* the optimistic paginated hook on one key
OptimisticNext ==
    \/ MountOptimistic(OptKey[1], OptKey[2]) /\ OptimisticFrame
    \/ \E ids \in PageIds, fields \in StoreData :
          OptimisticFetch(ids, fields) /\ OptimisticFrame
    \/ \E m \in 1..MaxAdds, data \in AddInputs : add(m, data) /\ OptimisticFrame
    \/ \E m \in 1..MaxAdds : onMutate(m) /\ OptimisticFrame
    \/ \E m \in 1..MaxAdds : mutationFn(m) /\ OptimisticFrame
    \/ \E m \in 1..MaxAdds : CommitResolves(m) /\ OptimisticFrame
    \/ \E m \in 1..MaxAdds : CommitRejects(m) /\ OptimisticFrame

OptimisticSpec == Init /\ [][OptimisticNext]_vars

\* the add calls of a run with pushes: one and a second that overlaps it
OverlappingAdds == {1, 2}

\* the optimistic paginated hook on one key with its listener
MergeNext ==
    \/ MountOptimistic(OptKey[1], OptKey[2]) /\ OptimisticFrame
    \/ \E ids \in PageIds, fields \in StoreData :
          OptimisticFetch(ids, fields) /\ OptimisticFrame
    \/ \E m \in OverlappingAdds, data \in AddInputs :
          add(m, data) /\ OptimisticFrame
    \/ \E m \in OverlappingAdds : onMutate(m) /\ OptimisticFrame
    \/ \E m \in OverlappingAdds : mutationFn(m) /\ OptimisticFrame
    \/ \E m \in OverlappingAdds : CommitResolves(m) /\ OptimisticFrame
    \/ \E m \in OverlappingAdds : CommitRejects(m) /\ OptimisticFrame
    \/ \E changes \in Changes, fields \in DataSet :
          OptimisticSnapshot(changes, fields)
              /\ UNCHANGED <<listenerVars, hookVars, utilVars>>

MergeSpec == Init /\ [][MergeNext]_vars

\* pushes and calls in a run of the two hook instances
MaxHookOps == 4

\* a push or a call of the component counts
HookStepFrame ==
    /\ ops < MaxHookOps
    /\ ops' = ops + 1
    /\ UNCHANGED <<listenerVars, optimisticVars, utilVars>>

\* the hooks are mounted without counting
HookMountFrame ==
    UNCHANGED <<ops, hookVars, listenerVars, optimisticVars, utilVars>>

\* one useCollection instance and one useDocument instance with what they
\* hand to the component
HookNext ==
    \/ MountCollection(HookKey[1], HookKey[2]) /\ HookMountFrame
    \/ \E p \in DocSessionPaths : MountDocument(p) /\ HookMountFrame
    \/ \E ids \in SnapshotIds, fields \in StoreData :
          HookSnapshot(ids, fields) /\ HookStepFrame
    \/ \E p \in DocSessionPaths, fields \in StoreData :
          DocumentSnapshot(p, fields, TRUE, FALSE) /\ UNCHANGED hookVars
              /\ HookStepFrame
    \/ \E p \in DocSessionPaths, data \in DataSet, merge \in BOOLEAN :
          useDocumentSet(p, data, merge) /\ HookStepFrame
    \/ \E p \in DocSessionPaths, data \in DataSet :
          useDocumentUpdate(p, data) /\ HookStepFrame
    \/ \E p \in DocSessionPaths : useDocumentDelete(p) /\ HookStepFrame
    \/ \E data \in DataSet : useCollectionAdd(HookKey, data) /\ HookStepFrame
    \/ \E ok \in BOOLEAN : AddSettles(HookKey, ok) /\ HookStepFrame
    \/ \E key \in {HookKey, NoPathKey} : fetchNextPage(key) /\ HookStepFrame
    \/ \E ids \in SnapshotIds, fields \in StoreData :
          NextPageArrives(ids, fields) /\ HookStepFrame
    \/ NextPageRejects /\ HookStepFrame

HookSpec == Init /\ [][HookNext]_vars

\* a collection and a subcollection of one of its documents, each with
\* documents a and b
Comments == DocPath(Posts, IdA) \o Slash \o <<"c">>
FrameCollections == {Posts, Comments}
FrameKeys == FrameCollections \X {"q1"}
FrameDocPaths == {DocPath(c, id) : c \in FrameCollections, id \in DocIds}

\* paths handed to the helpers: the documents and one collection
FrameHelperPaths == FrameDocPaths \cup {Comments}

FrameInit ==
    /\ docCache = [p \in FrameDocPaths |-> Undefined]
    /\ colCache = [k \in FrameKeys |-> Undefined]
    /\ collections = [c \in FrameCollections |-> <<>>]
    /\ sessions = [k \in FrameKeys |-> "none"]
    /\ docSessions = {}
    /\ lastCall = Event("init", NoPath)
    /\ ops = 0
    /\ variant = "useDocument"
    /\ QueryInit
    /\ ListenerInit
    /\ OptimisticInit
    /\ HookInit
    /\ UtilInit

\* a push or a helper call counts
FrameOp ==
    /\ ops < MaxOps
    /\ ops' = ops + 1
    /\ UNCHANGED <<listenerVars, optimisticVars, hookVars, utilVars>>

\* useCollection instances on the two collections and the helpers called on
\* their documents and on the collections themselves
FrameNext ==
    \/ \E k \in FrameKeys :
          MountCollection(k[1], k[2])
              /\ UNCHANGED <<ops, listenerVars, optimisticVars, hookVars,
                             utilVars>>
    \/ \E k \in FrameKeys, ids \in PageIds, fields \in StoreData :
          CollectionSnapshot(k, ids, fields, FALSE) /\ FrameOp
    \/ \E path \in FrameHelperPaths, data \in DataSet, merge \in BOOLEAN :
          setDocument(path, data, merge, FALSE, "")
              /\ UNCHANGED <<collections, sessions, docSessions>> /\ FrameOp
    \/ \E path \in FrameHelperPaths, data \in DataSet :
          updateDocument(path, data, FALSE, "")
              /\ UNCHANGED <<collections, sessions, docSessions>> /\ FrameOp
    \/ \E path \in FrameHelperPaths :
          deleteDocument(path, FALSE, "")
              /\ UNCHANGED <<collections, sessions, docSessions>> /\ FrameOp

FrameSpec == FrameInit /\ [][FrameNext]_vars

\* a collection-group session on the collection id "c" next to a plain
\* session on the subcollection p/a/c, whose documents both list
Group == <<"c">>
GroupKey == <<Group, "q2">>
PlainKey == <<Comments, "q1">>

\* the onSnapshot callback of useCollection where the documents of the
\* snapshot live in the collection parent: doc.ref.path is the path of the
\* document in its own collection
GroupSnapshot(key, parent, ids, fields) ==
    /\ sessions[key] = "collection"
    /\ LET n == NormalizeAll(parent, ids, fields, FALSE, "undefined",
                             RefsIn(docCache, colCache))
       IN  /\ docCache' = WriteDocs(docCache, parent, n.docs)
           /\ colCache' = [colCache EXCEPT ![key] =
                              setCollectionData(@, n.docs, Fresh(n.used))]
    /\ lastCall' = [Event("collectionSnapshot", key[1])
                       EXCEPT !.query = key[2], !.ids = ids]
    /\ UNCHANGED <<collections, sessions, docSessions>>

GroupInit ==
    /\ docCache = [p \in {DocPath(Comments, id) : id \in DocIds} |-> Undefined]
    /\ colCache = [k \in {GroupKey, PlainKey} |-> Undefined]
    /\ collections = [c \in {Group, Comments} |-> <<>>]
    /\ sessions = [k \in {GroupKey, PlainKey} |-> "none"]
    /\ docSessions = {}
    /\ lastCall = Event("init", NoPath)
    /\ ops = 0
    /\ variant = "useDocument"
    /\ QueryInit
    /\ ListenerInit
    /\ OptimisticInit
    /\ HookInit
    /\ UtilInit

\* the two sessions, their pushes, and the helpers called on the documents
\* of the subcollection
GroupNext ==
    \/ \E k \in {GroupKey, PlainKey} :
          MountCollection(k[1], k[2])
              /\ UNCHANGED <<ops, listenerVars, optimisticVars, hookVars,
                             utilVars>>
    \/ \E k \in {GroupKey, PlainKey}, ids \in PageIds, fields \in StoreData :
          GroupSnapshot(k, Comments, ids, fields) /\ FrameOp
    \/ \E id \in DocIds, data \in DataSet :
          updateDocument(DocPath(Comments, id), data, FALSE, "")
              /\ UNCHANGED <<collections, sessions, docSessions>> /\ FrameOp
    \/ \E id \in DocIds :
          deleteDocument(DocPath(Comments, id), FALSE, "")
              /\ UNCHANGED <<collections, sessions, docSessions>> /\ FrameOp

GroupSpec == GroupInit /\ [][GroupNext]_vars

UtilFrame ==
    UNCHANGED <<cacheVars, lastCall, ops, listenerVars, optimisticVars,
                hookVars>>

UtilNext ==
    \/ ApplyUnionBy /\ UtilFrame
    \/ ApplyParseDates /\ UtilFrame
    \/ ApplyValidation /\ UtilFrame
    \/ ApplyParent /\ UtilFrame
    \/ ApplyCreateFirestoreRef /\ UtilFrame

\* a function of utils.ts is called with arguments the hooks can give it
UtilSpecInit ==
    /\ CacheInit
    /\ variant = "useDocument"
    /\ QueryInit
    /\ ListenerInit
    /\ OptimisticInit
    /\ HookInit
    /\ utilCall \in UtilCalls
    /\ utilResult = Undefined

UtilSpec == UtilSpecInit /\ [][UtilNext]_vars

----------------------------------------------------------------------------
(* Vocabulary of the properties *)

\* the document id and the parent collection of a document path of the model
IdOf(path) ==
    CHOOSE id \in DocIds : \E c \in CollectionPaths : DocPath(c, id) = path

ParentOf(path) ==
    CHOOSE c \in CollectionPaths : \E id \in DocIds : DocPath(c, id) = path

Registered(k) ==
    \E i \in DOMAIN collections[k[1]] : collections[k[1]][i] = k

\* the keys registered for the parent collection of path
ParentKeys(path) == {k \in Keys : k[1] = ParentOf(path) /\ Registered(k)}

\* v is an array holding a document with this id
HasDoc(v, id) ==
    v.kind = "array" /\ \E i \in DOMAIN v.items : ItemId(v.items[i]) = id

\* v is the paginated shape and one of its pages holds a document with this id
PageHasDoc(v, id) ==
    /\ v.kind = "object"
    /\ \E i \in DOMAIN v.pages :
          /\ v.pages[i].kind = "page"
          /\ \E j \in DOMAIN v.pages[i].data : ItemId(v.pages[i].data[j]) = id

\* a helper call that got past the path checks
Ran(c, op) == c.op = op /\ c.outcome \in {"ok", "typeError"}

\* a document push that is written to the cache
Pushed(c) == c.op = "documentSnapshot" /\ c.outcome \in {"ok", "typeError"}

DocsWithout(items, id) ==
    SelectSeq(items, LAMBDA d : ItemId(d) /= id)

----------------------------------------------------------------------------
(* Properties *)

\* C1: after updateDocument(path of D, data), every array entry registered
\* for D's parent collection that contained D holds D with data shallow-merged
\* over its previous copy, and every other document is the same object at
\* the same position.
C1_UpdateCoherence ==
    [][Ran(lastCall', "update") =>
        \A k \in ParentKeys(lastCall'.path) :
            HasDoc(colCache[k], IdOf(lastCall'.path)) =>
                /\ colCache'[k].kind = "array"
                /\ Len(colCache'[k].items) = Len(colCache[k].items)
                /\ \A i \in DOMAIN colCache[k].items :
                      IF ItemId(colCache[k].items[i]) = IdOf(lastCall'.path)
                      THEN colCache'[k].items[i].f =
                               Spread(colCache[k].items[i].f, lastCall'.data)
                      ELSE colCache'[k].items[i] = colCache[k].items[i]]_vars

\* C2: a set, update, delete or document-push propagation for a document id
\* that is not a member of a registered entry leaves the value stored for that
\* entry the same object as before.
C2_IdentityPreserved ==
    [][(\/ Ran(lastCall', "set") \/ Ran(lastCall', "update")
        \/ Ran(lastCall', "delete") \/ Pushed(lastCall')) =>
        \A k \in ParentKeys(lastCall'.path) :
            (/\ ~HasDoc(colCache[k], IdOf(lastCall'.path))
             /\ ~PageHasDoc(colCache[k], IdOf(lastCall'.path)))
                => colCache'[k] = colCache[k]]_vars

\* C3: after a document push of D without pending writes, the document entry
\* at D's path holds the normalized snapshot, and every array entry registered
\* for D's parent collection that contained D holds that same object as its
\* copy of D, its other members unchanged.
C3_PushReachesCollections ==
    [][Pushed(lastCall') =>
        /\ docCache'[lastCall'.path].kind = "doc"
        /\ docCache'[lastCall'.path].f =
               [v |-> 1, id |-> IdOf(lastCall'.path), exists |-> TRUE,
                hasPendingWrites |-> FALSE]
        /\ \A k \in ParentKeys(lastCall'.path) :
              HasDoc(colCache[k], IdOf(lastCall'.path)) =>
                /\ colCache'[k].kind = "array"
                /\ Len(colCache'[k].items) = Len(colCache[k].items)
                /\ \A i \in DOMAIN colCache[k].items :
                      IF ItemId(colCache[k].items[i]) = IdOf(lastCall'.path)
                      THEN colCache'[k].items[i] = docCache'[lastCall'.path]
                      ELSE colCache'[k].items[i] = colCache[k].items[i]]_vars

\* C4: after a collection push, the document entry of every document of the
\* snapshot holds the same object that was placed in the cached array.
C4_PushWritesDocuments ==
    [][lastCall'.op = "collectionSnapshot" =>
        LET cached == colCache'[<<lastCall'.path, lastCall'.query>>]
        IN  /\ cached.kind = "array"
            /\ \A i \in DOMAIN cached.items :
                  docCache'[DocPath(lastCall'.path, ItemId(cached.items[i]))]
                      = cached.items[i]]_vars

\* a collection push of two documents has been processed
C4_Witness ==
    /\ lastCall.op = "collectionSnapshot"
    /\ Len(colCache[<<lastCall.path, lastCall.query>>].items) = 2

\* C5: with the helper options left at their defaults, setDocument without
\* merge makes the document entry exactly data; setDocument with merge and
\* updateDocument make it the previously cached fields overlaid by data.
C5_MergeSemantics ==
    [][/\ (Ran(lastCall', "set") /\ ~lastCall'.ignoreLocalMutation) =>
            /\ docCache'[lastCall'.path].kind = "doc"
            /\ docCache'[lastCall'.path].f =
                  IF lastCall'.merge
                  THEN Spread(FieldsOf(docCache[lastCall'.path]), lastCall'.data)
                  ELSE lastCall'.data
       /\ (Ran(lastCall', "update") /\ ~lastCall'.ignoreLocalMutation) =>
            /\ docCache'[lastCall'.path].kind = "doc"
            /\ docCache'[lastCall'.path].f =
                  Spread(FieldsOf(docCache[lastCall'.path]), lastCall'.data)]_vars

\* a set without merge has replaced the entry of a document that a collection
\* push had cached before (its copy in the array still has the pushed fields)
C5_Witness ==
    /\ Ran(lastCall, "set")
    /\ ~lastCall.merge
    /\ ~lastCall.ignoreLocalMutation
    /\ docCache[lastCall.path].f = lastCall.data
    /\ \E k \in Keys : HasDoc(colCache[k], IdOf(lastCall.path))

\* C6: setDocument on D replaces the fields of D's copy in every array entry
\* that contains D by data when merge is false or absent, and merges data
\* over them when merge is true.
C6_SetReachesCollections ==
    [][Ran(lastCall', "set") =>
        \A k \in ParentKeys(lastCall'.path) :
            HasDoc(colCache[k], IdOf(lastCall'.path)) =>
                /\ colCache'[k].kind = "array"
                /\ Len(colCache'[k].items) = Len(colCache[k].items)
                /\ \A i \in DOMAIN colCache[k].items :
                      ItemId(colCache[k].items[i]) = IdOf(lastCall'.path) =>
                          colCache'[k].items[i].f =
                              IF lastCall'.merge
                              THEN Spread(colCache[k].items[i].f, lastCall'.data)
                              ELSE lastCall'.data]_vars

\* C7: after deleteDocument(path of D) the document entry is null, and every
\* array entry registered for D's parent collection that contained D holds its
\* other documents in their previous order and no document with id D.
C7_DeleteReachesCollections ==
    [][(Ran(lastCall', "delete") /\ ~lastCall'.ignoreLocalMutation) =>
        /\ docCache'[lastCall'.path] = Null
        /\ \A k \in ParentKeys(lastCall'.path) :
              HasDoc(colCache[k], IdOf(lastCall'.path)) =>
                /\ colCache'[k].kind = "array"
                /\ colCache'[k].items =
                      DocsWithout(colCache[k].items, IdOf(lastCall'.path))]_vars

\* C8: setDocument, updateDocument and deleteDocument called with a
\* collection path raise the invalid-path error, with no cache entry changed
\* and no remote write issued.
C8_FailFast ==
    [][(/\ lastCall'.op \in {"set", "update", "delete"}
        /\ lastCall'.path \in CollectionPaths) =>
            /\ lastCall'.outcome = "invalidPath"
            /\ ~lastCall'.remote
            /\ docCache' = docCache
            /\ colCache' = colCache]_vars

\* a delete with a collection path was refused while the cache held data
C8_Witness ==
    /\ lastCall.op = "delete"
    /\ lastCall.path \in CollectionPaths
    /\ lastCall.outcome = "invalidPath"
    /\ \E k \in Keys : colCache[k].kind = "array" /\ colCache[k].items /= <<>>

\* C9 as stated: updateDocument with a collection path raises, setDocument
\* with a collection path does not.
C9_OnlyUpdateRaises ==
    [][/\ (lastCall'.op = "update" /\ lastCall'.path \in CollectionPaths)
            => lastCall'.outcome = "invalidPath"
       /\ (lastCall'.op = "set" /\ lastCall'.path \in CollectionPaths)
            => lastCall'.outcome /= "invalidPath"]_vars

\* C9 as amended: setDocument and updateDocument both raise the invalid-path
\* error when called with a collection path.
C9_SetAndUpdateRaise ==
    [][(/\ lastCall'.op \in {"set", "update"}
        /\ lastCall'.path \in CollectionPaths)
            => lastCall'.outcome = "invalidPath"]_vars

\* a set with a collection path was refused
C9_Witness ==
    /\ lastCall.op = "set"
    /\ lastCall.path \in CollectionPaths
    /\ lastCall.outcome = "invalidPath"

\* C10: when a registered entry is the paginated shape and one of its pages
\* holds D, a set, update or delete propagation for D completes without error
\* and leaves that page without the previous copy of D (patched or removed).
C10_PaginatedCoherence ==
    [][(\/ Ran(lastCall', "set") /\ lastCall'.merge
        \/ Ran(lastCall', "update")
        \/ Ran(lastCall', "delete")) =>
        \A k \in ParentKeys(lastCall'.path) :
            PageHasDoc(colCache[k], IdOf(lastCall'.path)) =>
                /\ lastCall'.outcome = "ok"
                /\ colCache'[k] /= colCache[k]]_vars

\* C11: a document push with hasPendingWrites true changes no cache entry and
\* does not resolve the first-snapshot promise; a document push that changes a
\* cache entry has hasPendingWrites false.
C11_PendingSuppressed ==
    [][lastCall'.op = "documentSnapshot" =>
        /\ lastCall'.hasPendingWrites =>
              /\ docCache' = docCache
              /\ colCache' = colCache
              /\ ~lastCall'.resolved
        /\ (docCache' /= docCache \/ colCache' /= colCache) =>
              ~lastCall'.hasPendingWrites]_vars

\* a push with pending writes arrived for a document whose entry and whose
\* copy in a cached array hold an earlier push
C11_Witness ==
    /\ lastCall.op = "documentSnapshot"
    /\ lastCall.hasPendingWrites
    /\ docCache[lastCall.path].kind = "doc"
    /\ \E k \in Keys : HasDoc(colCache[k], IdOf(lastCall.path))

\* C12: a hook instance never has two listeners that are open at once.
C12_OneLiveListener ==
    Cardinality({n \in DOMAIN listeners : listeners[n].open}) <= 1

\* C13: once the hook is unmounted and no first snapshot is outstanding (no
\* step is left to take), none of its listeners is open.
C13_NoLeak ==
    (/\ ~mounted
     /\ \A n \in DOMAIN listeners : listeners[n].open => listeners[n].first)
        => \A n \in DOMAIN listeners : ~listeners[n].open

\* the step is a step of add call m
StepOf(m) == mutations'[m].pc /= mutations[m].pc

\* C14: the context of an add holds the value the entry had when the add's
\* onMutate took its snapshot, and when the batched create of that add is
\* rejected the entry is set back to exactly that value.
C14_Rollback ==
    [][\A m \in 1..MaxAdds :
        /\ (mutations[m].pc = "onMutate" /\ mutations'[m].pc = "mutationFn")
              => mutations'[m].previousPages = colCache[OptKey]
        /\ (mutations[m].pc = "commit" /\ mutations'[m].pc = "error")
              => colCache'[OptKey] = mutations[m].previousPages]_vars

\* a failed add has been rolled back to a first page that holds a fetched
\* document and none of the documents the add had prepended
C14_Witness ==
    \E m \in 1..MaxAdds :
        /\ mutations[m].pc = "error"
        /\ mutations[m].added /= <<>>
        /\ colCache[OptKey].kind = "object"
        /\ colCache[OptKey].pages[1].data /= <<>>
        /\ \A i \in DOMAIN colCache[OptKey].pages[1].data :
              \A j \in DOMAIN mutations[m].added :
                  ItemId(colCache[OptKey].pages[1].data[i])
                      /= ItemId(mutations[m].added[j])

\* C15: when the entry holds at least one page, the onMutate of add(data)
\* makes the first page the new records, each with its generated id, followed
\* by the previous members of the first page in their order, leaves every
\* later page as it was, and has not yet issued the batched create.
C15_OptimisticPrepend ==
    [][\A m \in 1..MaxAdds :
        (/\ mutations[m].pc = "onMutate"
         /\ StepOf(m)
         /\ colCache[OptKey].kind = "object") =>
            LET old == colCache[OptKey].pages
                new == colCache'[OptKey].pages
                data == mutations[m].data
            IN  /\ mutations'[m].pc = "mutationFn"
                /\ mutations'[m].written = <<>>
                /\ Len(new) = Len(old)
                /\ Len(new[1].data) = Len(data) + Len(old[1].data)
                /\ \A i \in DOMAIN data :
                      /\ ItemId(new[1].data[i]) = GenId(m, i)
                      /\ new[1].data[i].f = Spread(data[i], [id |-> GenId(m, i)])
                /\ \A i \in DOMAIN old[1].data :
                      new[1].data[Len(data) + i] = old[1].data[i]
                /\ \A j \in 2..Len(old) : new[j] = old[j]]_vars

\* an add has prepended its records to a first page that held documents,
\* with a second page cached, and its batch is not issued yet
C15_Witness ==
    \E m \in 1..MaxAdds :
        /\ mutations[m].pc = "mutationFn"
        /\ colCache[OptKey].kind = "object"
        /\ Len(colCache[OptKey].pages) = 2
        /\ colCache[OptKey].pages[2].data /= <<>>
        /\ Len(colCache[OptKey].pages[1].data) > Len(mutations[m].added)
        /\ ItemId(colCache[OptKey].pages[1].data[1]) = GenId(m, 1)

\* C16: the (id, fields) records an add call has written to the store with its
\* batch are exactly the records that call prepended to the cache.
C16_SharedIds ==
    \A m \in 1..MaxAdds :
        mutations[m].pc \in {"commit", "success", "error"} =>
            {Spread(mutations[m].written[i].doc,
                    [id |-> mutations[m].written[i].id]) :
                        i \in DOMAIN mutations[m].written}
                = {mutations[m].added[i].f : i \in DOMAIN mutations[m].added}

\* data is part of the fields of the cached value v
Reflects(v, data) ==
    /\ v.kind = "doc"
    /\ \A k \in DOMAIN data : k \in DOMAIN v.f /\ v.f[k] = data[k]

\* C17: as soon as set or update of useDocument has been called the document
\* entry of its path holds the data, and as soon as add of useCollection has
\* been called the array cached for its key holds a document with the data.
C17_InstantUpdate ==
    [][/\ lastCall'.op \in {"useDocument.set", "useDocument.update"} =>
            Reflects(docCache'[lastCall'.path], lastCall'.data)
       /\ lastCall'.op = "useCollection.add" =>
            /\ colCache'[HookKey].kind = "array"
            /\ \E i \in DOMAIN colCache'[HookKey].items :
                  Reflects(colCache'[HookKey].items[i], lastCall'.data)]_vars

C20_NoPageNoOp ==
    [][(/\ lastCall'.op = "fetchNextPage"
        /\ \/ lastCall'.path = NoPath
           \/ colCache[HookKey].kind /= "array"
           \/ colCache[HookKey].items = <<>>) =>
            /\ lastCall'.outcome = "undefined"
            /\ ~lastCall'.remote
            /\ docCache' = docCache
            /\ colCache' = colCache
            /\ hasNextPage' = hasNextPage
            /\ isFetchingNextPage' = isFetchingNextPage
            /\ pendingPages' = pendingPages]_vars

\* fetchNextPage returned at once after a push of an empty snapshot
C20_Witness ==
    /\ lastCall.op = "fetchNextPage"
    /\ lastCall.path = Posts
    /\ lastCall.outcome = "undefined"
    /\ colCache[HookKey] /= Undefined
    /\ colCache[HookKey].items = <<>>
    /\ ~hasNextPage

\* the ids of a sequence of cached documents, in order
IdsOf(items) == [i \in DOMAIN items |-> ItemId(items[i])]

\* C21: when the read of fetchNextPage has arrived, the key holds the array
\* it held just before, followed by the documents of the new page in result
\* order, and hasNextPage is true exactly when the page was not empty.
C21_NextPageAppends ==
    [][(lastCall'.op = "nextPage" /\ lastCall'.outcome = "ok") =>
        LET old == colCache[HookKey]
            new == colCache'[HookKey]
        IN  /\ old.kind = "array"
            /\ new.kind = "array"
            /\ Len(new.items) = Len(old.items) + Len(lastCall'.ids)
            /\ SubSeq(new.items, 1, Len(old.items)) = old.items
            /\ IdsOf(SubSeq(new.items, Len(old.items) + 1, Len(new.items)))
                   = lastCall'.ids
            /\ hasNextPage' = (lastCall'.ids /= <<>>)]_vars

\* a page of one document has been appended behind two cached documents
C21_Witness ==
    /\ lastCall.op = "nextPage"
    /\ lastCall.outcome = "ok"
    /\ Len(lastCall.ids) = 1
    /\ colCache[HookKey].kind = "array"
    /\ Len(colCache[HookKey].items) = 3
    /\ hasNextPage

\* C22: a listener on which the store reported an error before its first
\* snapshot has its promise rejected.
C22_ErrorRejects ==
    \A n \in DOMAIN listeners :
        (listeners[n].failed /\ ~listeners[n].first) => listeners[n].rejected

\* C23: a step that begins and ends without a path opens no listener, makes
\* no remote call and changes no cache entry; and a mounted instance with a
\* string path whose query is not already waiting for a first snapshot can
\* run its query function, which opens the listener.
C23_NoRequestWithoutPath ==
    [][/\ (hookPath = NoPath /\ hookPath' = NoPath) =>
              /\ Len(listeners') = Len(listeners)
              /\ lastCall' /= lastCall => ~lastCall'.remote
              /\ docCache' = docCache
              /\ colCache' = colCache
              /\ collections' = collections
       /\ (Len(listeners') = Len(listeners) + 1) =>
              /\ hookPath /= NoPath
              /\ listeners'[Len(listeners')].path = hookPath
              /\ listeners'[Len(listeners')].open
       /\ (/\ mounted
           /\ hookPath /= NoPath
           /\ Len(listeners) < MaxListeners
           /\ ~\E n \in DOMAIN listeners :
                   listeners[n].path = hookPath /\ Waiting(listeners[n])) =>
              ENABLED (fetch /\ ListenerFrame)]_vars

\* a call was made without a path, the path then became a string and the
\* listener on it is open
C23_Witness ==
    /\ lastCall.path = NoPath
    /\ lastCall.outcome = "undefined"
    /\ hookPath /= NoPath
    /\ \E n \in DOMAIN listeners :
           listeners[n].open /\ listeners[n].path = hookPath

\* the values of a query prop, whatever the instances that hold them
ValuesOf(q) ==
    [m \in DOMAIN q |-> IF q[m].kind = "array" THEN q[m].items ELSE q[m]]

\* C24: a render with another query prop of the same values leaves the
\* fingerprint, the listeners and the held unsubscribe as they are.
C24_SameFingerprint ==
    [][(query' /= query /\ ValuesOf(query') = ValuesOf(query)) =>
          /\ memoQueryString' = memoQueryString
          /\ listeners' = listeners
          /\ unsubscribeRef' = unsubscribeRef]_vars

\* the hook was rendered with an equal query prop while its listener is held
C24_Witness ==
    /\ lastCall.op = "render"
    /\ lastCall.outcome = "ok"
    /\ query /= Query0
    /\ unsubscribeRef > 0
    /\ listeners[unsubscribeRef].open
    /\ listeners[unsubscribeRef].queryString = memoQueryString

\* the positions of arr at which the instance of item is
PositionsOf(arr, item) == {i \in DOMAIN arr : arr[i] = item}

\* C25: unionBy(newDocs, existingDocs, id) is newDocs in their order and then
\* the existingDocs whose id is not in newDocs, in their order.
C25_UnionBy ==
    (utilCall.fn = "unionBy" /\ utilResult /= Undefined) =>
        LET new == utilCall.arr1
            old == utilCall.arr2
            out == utilResult.items
            rest == SubSeq(out, Len(new) + 1, Len(out))
        IN  /\ Len(out) >= Len(new)
            /\ SubSeq(out, 1, Len(new)) = new
            /\ \A i \in DOMAIN old :
                   (\E j \in DOMAIN rest : rest[j] = old[i])
                       <=> ItemId(old[i]) \notin {ItemId(new[n]) : n \in DOMAIN new}
            /\ \A j \in DOMAIN rest : PositionsOf(old, rest[j]) /= {}
            /\ \A j, k \in DOMAIN rest :
                   j < k => \A p \in PositionsOf(old, rest[j]),
                               q \in PositionsOf(old, rest[k]) : p < q

\* new [a:v2] merged into existing [a:v1, b:v1] gives [a:v2, b:v1]
C25_Witness ==
    /\ utilCall.fn = "unionBy"
    /\ utilCall.arr1 = <<Item(1, IdA, 2)>>
    /\ utilCall.arr2 = <<Item(MaxArr + 1, IdA, 1), Item(MaxArr + 2, IdB, 1)>>
    /\ utilResult /= Undefined
    /\ utilResult.items = <<Item(1, IdA, 2), Item(MaxArr + 2, IdB, 1)>>

\* a value with a seconds and a nanoseconds member
PairShaped(v) == IsObject(v) /\ In("seconds", v) /\ In("nanoseconds", v)

\* the member key of a map
MemberOf(v, key) ==
    v.members[CHOOSE i \in DOMAIN v.members : v.members[i].key = key].value

\* the date a pair stands for
DateOf(v) ==
    IF v.kind = "timestamp" THEN Date(v.seconds, v.nanoseconds)
    ELSE Date(MemberOf(v, "seconds").n, MemberOf(v, "nanoseconds").n)

\* a value with every pair in it replaced by its date
RECURSIVE Coerced(_)
Coerced(v) ==
    IF PairShaped(v) THEN DateOf(v)
    ELSE IF v.kind = "map"
    THEN Map([i \in DOMAIN v.members |->
                 Member(v.members[i].key, Coerced(v.members[i].value))])
    ELSE IF v.kind = "list"
    THEN List([i \in DOMAIN v.items |-> Coerced(v.items[i])])
    ELSE v

\* C26: parseDates leaves the record with every value shaped like a
\* {seconds, nanoseconds} pair replaced by its date, at every depth, and
\* every other value as it was.
C26_DatesCoerced ==
    (utilCall.fn = "parseDates" /\ utilResult /= Undefined) =>
        /\ ~utilResult.threw
        /\ utilResult.obj = Coerced(utilCall.obj)

\* C27: addCollectionToCache called with a key that is registered leaves the
\* index and the sequence getKeysFromCollectionPath returns as they are, and
\* no key is ever in that sequence twice.
C27_Idempotent ==
    [][/\ \A k \in Keys :
              (/\ lastCall'.op = "addToCollectionCache"
               /\ <<lastCall'.path, lastCall'.query>> = k
               /\ k \in Range(getKeysFromCollectionPath(k[1]))) =>
                  /\ collections' = collections
                  /\ getKeysFromCollectionPath(k[1])'
                         = getKeysFromCollectionPath(k[1])
       /\ \A p \in CollectionPaths :
              LET keys == getKeysFromCollectionPath(p)'
              IN  \A i, j \in DOMAIN keys : keys[i] = keys[j] => i = j]_vars

\* a key registered by a mounted hook was registered again
C27_Witness ==
    /\ lastCall.op = "addToCollectionCache"
    /\ sessions[<<lastCall.path, lastCall.query>>] /= "none"
    /\ Len(collections[lastCall.path]) = 1

\* C28: the sequence getKeysFromCollectionPath returns for a path loses no
\* key, gains exactly the key a step registers, holds the key of every
\* mounted collection hook, and is empty for a path nothing was registered
\* for.
C28_IndexComplete ==
    [][/\ \A p \in CollectionPaths :
              LET old == Range(getKeysFromCollectionPath(p))
                  new == Range(getKeysFromCollectionPath(p)')
                  registered ==
                      {k \in Keys : k[1] = p /\ sessions'[k] /= sessions[k]}
                          \cup (IF lastCall'.op = "addToCollectionCache"
                                    /\ lastCall'.path = p
                                 THEN {<<p, lastCall'.query>>} ELSE {})
              IN  /\ old \subseteq new
                  /\ new \ old \subseteq registered
                  /\ lastCall' /= lastCall => registered \subseteq new
       /\ \A k \in Keys :
              sessions'[k] /= "none" =>
                  k \in Range(getKeysFromCollectionPath(k[1])')
       /\ \A p \in DocPaths \cup {NoPath} :
              getKeysFromCollectionPath(p)' = <<>>]_vars

\* two keys are registered and a helper has run on a document since
C28_Witness ==
    /\ Len(getKeysFromCollectionPath(Posts)) = 2
    /\ Ran(lastCall, "delete")

\* C29: when the useCollection instance of a key has processed a push, the
\* key holds an array of exactly the documents of the snapshot, in snapshot
\* order, with the fields the store sent.
C29_PushReplaces ==
    [][lastCall'.op = "collectionSnapshot" =>
          \A k \in Keys :
              k = <<lastCall'.path, lastCall'.query>> =>
                  /\ colCache'[k].kind = "array"
                  /\ IdsOf(colCache'[k].items) = lastCall'.ids
                  /\ \A i \in DOMAIN colCache'[k].items :
                         \E fields \in StoreData :
                             Reflects(colCache'[k].items[i], fields)]_vars

\* a push of one document has been processed after an earlier push or call
C29_Witness ==
    /\ lastCall.op = "collectionSnapshot"
    /\ Len(lastCall.ids) = 1
    /\ ops >= 2
    /\ Len(colCache[<<lastCall.path, lastCall.query>>].items) = 1

\* the collection a document path of the two collections is in
FrameParent(path) ==
    CHOOSE c \in FrameCollections : \E id \in DocIds : DocPath(c, id) = path

\* C30: a set, update or delete on a document path changes no document entry
\* but the one of that path and no collection entry but those registered for
\* the collection the document is in; on any other path it changes nothing.
C30_PropagationFrame ==
    [][lastCall'.op \in {"set", "update", "delete"} =>
          \A path \in FrameHelperPaths :
              path = lastCall'.path =>
                  /\ \A q \in DOMAIN docCache :
                         (q /= path \/ path \notin FrameDocPaths)
                             => docCache'[q] = docCache[q]
                  /\ \A k \in DOMAIN colCache :
                         (\/ path \notin FrameDocPaths
                          \/ k[1] /= FrameParent(path)
                          \/ ~Registered(k))
                             => colCache'[k] = colCache[k]]_vars

\* document a of the subcollection was updated while the collection above it
\* holds a document with the same id, which keeps its fields
C30_Witness ==
    /\ Ran(lastCall, "update")
    /\ lastCall.path = DocPath(Comments, IdA)
    /\ Reflects(docCache[DocPath(Comments, IdA)], lastCall.data)
    /\ HasDoc(colCache[<<Comments, "q1">>], IdA)
    /\ HasDoc(colCache[<<Posts, "q1">>], IdA)
    /\ \A i \in DOMAIN colCache[<<Posts, "q1">>].items :
           \E fields \in StoreData :
               Reflects(colCache[<<Posts, "q1">>].items[i], fields)


----------------------------------------------------------------------------
(* Claims C31..C40 *)

\* the segments of a path: the maximal runs of characters other than "/"
\* in the path without the white space at its ends
SegmentCount(path) ==
    LET t == Trim(path)
    IN  Cardinality({i \in 1..Len(t) :
                        t[i] /= "/" /\ (i = 1 \/ t[i - 1] = "/")})

Validated == utilCall.fn = "validate" /\ utilResult.kind = "validation"

\* C31 as stated: a non-empty path passes the validation of the mutation
\* helpers exactly when it has an odd number of segments
C31_OddIsDocument ==
    Validated =>
        (utilResult.outcome = "ok" <=> SegmentCount(utilCall.path) % 2 = 1)

\* C31: a non-empty path passes the validation of the mutation helpers
\* exactly when it has an even number of segments, and raises the
\* invalid-path error otherwise
C31_EvenIsDocument ==
    Validated =>
        /\ utilResult.outcome \in {"ok", "invalidPath"}
        /\ utilResult.outcome = "ok" <=> SegmentCount(utilCall.path) % 2 = 0

\* "p/p " is accepted by update
C31_Witness ==
    /\ Validated
    /\ utilCall.op = "update"
    /\ utilCall.path = <<"p", "/", "p", " ">>
    /\ utilResult.outcome = "ok"


\* C34: for every document path, the parent collection the document
\* session's propagation looks up equals the path without its last segment,
\* the one the mutation helpers look up
C34_SameParent ==
    (utilCall.fn = "parent" /\ utilResult.kind = "parent") =>
        /\ utilResult.helpers
               = SubSeq(utilCall.path, 1,
                        Len(utilCall.path) - Len(HelperDocId(utilCall.path)) - 1)
        /\ utilResult.document = utilResult.helpers


Built == utilCall.fn = "createFirestoreRef" /\ utilResult.kind = "ref"

\* the stage of a call on the store: filter, sort, cursor, limit
Stage(op) ==
    CASE op \in {"collection", "collectionGroup"} -> 0
      [] op = "where" -> 1
      [] op = "orderBy" -> 2
      [] op \in Range(Cursors) -> 3
      [] op = "limit" -> 4

\* the conditions and the sort keys of a descriptor, in its order
ConditionsOf(where) ==
    IF where = Undefined THEN <<>>
    ELSE IF where.items[1].kind = "array"
    THEN [i \in 1..Len(where.items) |-> where.items[i].items]
    ELSE <<where.items>>

SortKeysOf(orderBy) ==
    IF orderBy = Undefined THEN <<>>
    ELSE IF orderBy.kind = "string" THEN <<<<orderBy>>>>
    ELSE IF orderBy.items[1].kind = "array"
    THEN [i \in 1..Len(orderBy.items) |-> orderBy.items[i].items]
    ELSE <<orderBy.items>>

\* s is t with some elements left out
IsSubSeq(s, t) ==
    \E f \in [1..Len(s) -> 1..Len(t)] :
        /\ \A i \in 1..Len(s) : t[f[i]] = s[i]
        /\ \A i, j \in 1..Len(s) : i < j => f[i] < f[j]

ArgsOf(calls, op) ==
    LET sel == SelectSeq(calls, LAMBDA c : c.op = op)
    IN  [i \in 1..Len(sel) |-> sel[i].args]

C33_CursorsReach ==
    Built =>
        \A m \in Range(Cursors) \cup {"limit"} :
            utilCall.query[m] /= Undefined =>
                \E i \in 1..Len(utilResult.calls) :
                    utilResult.calls[i] = Clause(m, <<utilCall.query[m]>>)


\* the ids of the documents the optimistic paginated session exposes
ExposedIds(data) ==
    IF formattedData(data) = Undefined THEN <<>>
    ELSE IdsOf(formattedData(data).items)

\* the step is a push delivered to the optimistic paginated session
PushStep == lastCall'.op = "optimisticSnapshot" /\ ops' = ops + 1

\* C35: when a failed add is rolled back, every document of the entry that
\* came from the store, or from another add whose create has succeeded, is
\* still in the entry
C35_RollbackKeepsOthers ==
    [][\A m \in 1..MaxAdds :
        (mutations[m].pc = "commit" /\ mutations'[m].pc = "error") =>
            LET before == Range(ExposedIds(colCache[OptKey]))
                after == Range(ExposedIds(colCache'[OptKey]))
                succeeded ==
                    UNION {Range(IdsOf(mutations[l].added)) :
                              l \in {k \in 1..MaxAdds :
                                         k /= m /\ mutations[k].pc = "success"}}
            IN  (before \cap (DocIds \cup succeeded)) \subseteq after]_vars

\* C37: the onMutate of an add that finds no page in the entry does not
\* fail: the add goes on to its mutation function, which issues the batched
\* create
C37_AddBeforeFirstPage ==
    [][\A m \in 1..MaxAdds :
        (/\ mutations[m].pc = "onMutate"
         /\ StepOf(m)
         /\ sessions[OptKey] = "optimistic"
         /\ colCache[OptKey] = Undefined)
            => mutations'[m].pc = "mutationFn"]_vars

\* C38: the list the optimistic paginated session exposes holds no id twice
C38_NoDuplicateIds ==
    LET ids == ExposedIds(colCache[OptKey])
    IN  sessions[OptKey] = "optimistic" =>
            \A i, j \in DOMAIN ids : ids[i] = ids[j] => i = j

\* C39: a push that reports a document of a cached page as modified leaves
\* the document in the page with the fields of the push, and one that
\* reports it as removed leaves no document of that id in any page
C39_ModifiedAndRemovedReach ==
    [][PushStep =>
        \A n \in DOMAIN lastCall'.ids :
            LET c == lastCall'.ids[n]
                before == formattedData(colCache[OptKey])
                after == formattedData(colCache'[OptKey])
            IN  (before /= Undefined /\ c.id \in Range(IdsOf(before.items))) =>
                    /\ c.type = "modified" =>
                           \E i \in DOMAIN after.items :
                               /\ ItemId(after.items[i]) = c.id
                               /\ after.items[i].f.v = lastCall'.data.v
                    /\ c.type = "removed" =>
                           c.id \notin Range(IdsOf(after.items))]_vars


\* C36: a push that follows the arrival of a page of fetchNextPage leaves
\* in the cached array the documents of that page; a document the listener
\* had listed before the page and lists no more is reported removed
C36_PagesSurvivePush ==
    [][(/\ lastCall.op = "nextPage"
        /\ lastCall.outcome = "ok"
        /\ lastCall'.op = "collectionSnapshot") =>
           LET items == colCache[HookKey].items
               listed == SubSeq(items, 1, Len(items) - Len(lastCall.ids))
           IN  /\ colCache'[HookKey].kind = "array"
               /\ (Range(lastCall.ids) \ Range(IdsOf(listed)))
                      \subseteq Range(IdsOf(colCache'[HookKey].items))]_vars


\* the fields of the documents of a cached array, in its order
FieldsIn(v) ==
    IF v.kind = "array" THEN [i \in DOMAIN v.items |-> FieldsOf(v.items[i])]
    ELSE <<>>

\* C40: when the array of the collection-group session and the array of the
\* plain session on the subcollection hold the same documents, one of which
\* is D, updateDocument or deleteDocument on the path of D leaves them
\* holding the same documents
C40_GroupCoherence ==
    [][\A id \in DocIds :
        (/\ lastCall'.op \in {"update", "delete"}
         /\ lastCall'.path = DocPath(Comments, id)
         /\ Registered(GroupKey)
         /\ Registered(PlainKey)
         /\ HasDoc(colCache[GroupKey], id)
         /\ FieldsIn(colCache[GroupKey]) = FieldsIn(colCache[PlainKey]))
            => FieldsIn(colCache'[GroupKey]) = FieldsIn(colCache'[PlainKey])]_vars

====
